---------------------------- MODULE Spec2Model ----------------------------
(***************************************************************************)
(* A model of autonomous_notebooks/proxy.py: the ZMQ proxy that bridges a  *)
(* notebook frontend to an existing Jupyter kernel, re-signing every       *)
(* message for its destination; and of the notebook writing of             *)
(* autonomous_notebooks/cli2.py.                                           *)
(*                                                                         *)
(* Byte strings are sequences of byte values (0..255); a multipart message *)
(* is a sequence of frames, each a byte string.                            *)
(*                                                                         *)
(* Specifications that share the module's variables:                       *)
(*   SpecResign   the pure functions make_signer / resign, applied to      *)
(*                inputs drawn from bounded sets;                          *)
(*   SpecResolve  load_kernel_info and zmq_addr, applied to the files and  *)
(*                descriptors of a bounded set;                            *)
(*   SpecWrite    write_nb_if_unchanged, applied to a notebook file of     *)
(*                every age;                                               *)
(*   SpecAtomic   atomic_write_nb, step by step, with failing writes and   *)
(*                renames;                                                 *)
(*   SpecFind     find_cell_by_id, applied to a bounded set of notebooks;  *)
(*   SpecExec     execute_code, run against bounded sequences of IOPub     *)
(*                messages;                                                *)
(*   Spec         the running proxy: main, its five bridge threads, the    *)
(*                frontend clients and the kernel.                         *)
(***************************************************************************)
EXTENDS Integers, Sequences, FiniteSets, TLC

VARIABLES
    \* ---- SpecResign: one call of resign and its validation
    fpc,        \* "idle" | "call" | "resigned" | "validated"
    frames,     \* the frames handed to resign
    key,        \* the secret the signer is built from
    key2,       \* the secret the receiving side validates with
    result,     \* what resign returned
    accepted,   \* whether the receiving side accepted result's authentication frame
    \* ---- Spec: the running proxy
    mainpc,     \* main(): "load" | "spawn" | "announce" | "wait" | "stopping" | "exited"
    started,    \* how many of the five threads main has started
    ctx,        \* the shared zmq.Context: "none" | "live" | "destroyed" | "gone" (with the process)
    client_key, \* main's client_key (the frontend's secret)
    kernel_key, \* main's kernel_key (the kernel's secret)
    backend_id, \* main's backend_id, None before it is drawn
    pc,         \* per channel, its thread: "unstarted" | "setup" | "loop" | "exited" | "died" | "killed"
    client_id,  \* per channel, the loop's local client_id (None or a frame)
    router_last,\* per channel, the identity frame of the last message its ROUTER socket handed over
    identity,   \* per channel, the identity set on the kernel-facing socket
    fin,        \* per channel, messages waiting at the frontend-facing socket
    bin,        \* per channel, messages waiting at the kernel-facing socket
    bout,       \* per channel, messages the bridge sent towards the kernel
    fout,       \* per channel, messages the bridge sent towards the frontend
    kshell,     \* kernel: None or <<identity, header>> of the last Shell request it received
    nsent,      \* messages the frontends and the kernel have originated so far, and transport errors
    client_info,\* main's client_info, None before it is read
    in_use,     \* the endpoints another process has bound already
    exitcode,   \* None while the process runs, then its exit status (-n: ended by signal n)
    \* ---- SpecResolve and Spec: descriptor resolution
    fs,         \* the files: path |-> content
    kernel_info,\* what load_kernel_info returned, None before the call
    port_key,   \* SpecResolve: the port_key zmq_addr was last called with
    addr,       \* SpecResolve: what that call returned
    \* ---- SpecWrite, SpecAtomic: one call of write_nb_if_unchanged / atomic_write_nb
    wpc,        \* "idle" | "call" | "checked" | "opened" | "written" | "failed" | "returned" | "raised"
    nbdir,      \* the notebook's directory: file name |-> [content, mtime (ms)]
    nb,         \* the argument nb: the notebook's cells
    expected_mtime, \* the argument expected_mtime (ms)
    stderr,     \* the lines printed to sys.stderr
    ret,        \* None, Some(the value returned) or Raised(the exception raised)
    \* ---- SpecFind: one call of find_cell_by_id (on nb)
    cell_id,    \* the argument cell_id
    \* ---- SpecExec: one call of execute_code
    on_output,  \* whether a callback on_output was passed
    inbox,      \* the IOPub messages the client will still hand over, in order
    outputs,    \* the list outputs
    calls       \* what on_output was called with, call by call

fvars == <<fpc, frames, key, key2, result, accepted>>
svars == <<client_info, in_use, exitcode>>
bvars == <<mainpc, started, ctx, client_key, kernel_key, backend_id, pc, client_id,
           router_last, identity, fin, bin, bout, fout, kshell, nsent, svars>>
dvars == <<fs, kernel_info, port_key, addr>>
nvars == <<cell_id, on_output, inbox, outputs, calls>>
wvars == <<wpc, nbdir, nb, expected_mtime, stderr, ret, nvars>>
vars  == <<fvars, bvars, dvars, wvars>>

(***************************************************************************)
(* Bounds of the model.                                                    *)
(***************************************************************************)
MaxFrames == 7
\* How many events (messages of the frontends and the kernel, transport
\* errors) the environment originates in one run.
MaxSends == 2
\* The latest time (ms) a notebook file is written or expected to have been.
MaxTime == 12

(***************************************************************************)
(* Byte strings.                                                           *)
(***************************************************************************)
\* proxy.py:24  DELIM = b"<IDS|MSG>"
DELIM == <<60, 73, 68, 83, 124, 77, 83, 71, 62>>

\* The block size, in bytes, of SHA-256 (hashlib.sha256().block_size).
BlockSize == 64

RECURSIVE Concat(_)
\* h.update(p) for each p: the MAC is taken over the concatenation of the parts.
Concat(parts) ==
    IF parts = <<>> THEN <<>> ELSE Head(parts) \o Concat(Tail(parts))

\* One hexadecimal digit as its ASCII code: "0".."9" are 48..57, "a".."f" 97..102.
HexDigit(n) == IF n < 10 THEN 48 + n ELSE 87 + n

\* bytes.hex(): two lower-case hexadecimal digits per byte, high nibble first.
hexdigest(bytes) ==
    [i \in 1..(2 * Len(bytes)) |->
        LET b == bytes[(i + 1) \div 2]
        IN  IF i % 2 = 1 THEN HexDigit(b \div 16) ELSE HexDigit(b % 16)]

\* HMAC's key schedule: a key no longer than the hash's block is padded with
\* zero bytes to the block size.  (Longer keys are first hashed; the secrets of
\* this model are shorter than a block.)
PadKey(k) == k \o [i \in 1..(BlockSize - Len(k)) |-> 0]

\* hmac.new(key, digestmod=sha256) ... h.digest().  SHA-256 is modelled as an
\* ideal (collision-free) hash: the digest determines, and is determined by,
\* the padded key and the data.
hmac_digest(k, data) == PadKey(k) \o data

\* sign as it would be with a plain hash in place of the keyed one.
sign_unkeyed(k, parts) == hexdigest(Concat(parts))

\* proxy.py:58-62, the inner function sign of make_signer.
sign(k, parts) == hexdigest(hmac_digest(k, Concat(parts)))

\* make_signer without the `if not key` branch: the empty secret is an HMAC
\* key like any other.
make_signer_always_keyed(k, parts) == sign(k, parts)

\* proxy.py:54-64.  A signer is the closure make_signer(key); the model writes
\* the call make_signer(key)(parts) as make_signer(k, parts).
make_signer(k, parts) == IF k = <<>> THEN <<>> ELSE sign(k, parts)

(***************************************************************************)
(* Python list operations.                                                 *)
(***************************************************************************)
\* list.index(x): the least index (1-based here) holding x; 0 stands for ValueError.
Index(s, x) ==
    IF \E i \in 1..Len(s) : s[i] = x
    THEN CHOOSE i \in 1..Len(s) : s[i] = x /\ \A j \in 1..(i - 1) : s[j] # x
    ELSE 0

\* s[a:] with a 0-based lower bound a >= 0.
SliceFrom(s, a) == IF a >= Len(s) THEN <<>> ELSE SubSeq(s, a + 1, Len(s))

\* s[:n]
SliceTo(s, n) == IF n >= Len(s) THEN s ELSE SubSeq(s, 1, n)

\* resign with the slice to sign starting one frame early (at the old
\* authentication frame).
resign_off_by_one(fr, signer) ==
    LET idx == Index(fr, DELIM)
    IN  IF idx = 0
        THEN fr
        ELSE LET idents    == SliceTo(fr, idx - 1)
                 msg_parts == SliceFrom(fr, idx + 1)
                 new_hmac  == make_signer(signer, SliceTo(SliceFrom(fr, idx), 4))
             IN  idents \o <<DELIM, new_hmac>> \o msg_parts

\* resign without the ValueError branch: a missing delimiter is taken to sit
\* before the first frame.
resign_no_passthrough(fr, signer) ==
    LET idx == Index(fr, DELIM)
        idents    == SliceTo(fr, idx - 1)
        msg_parts == IF idx = 0 THEN fr ELSE SliceFrom(fr, idx + 1)
        new_hmac  == make_signer(signer, SliceTo(msg_parts, 4))
    IN  idents \o <<DELIM, new_hmac>> \o msg_parts

\* resign signing everything after the old authentication frame, attachment
\* frames included.
resign_signs_attachments(fr, signer) ==
    LET idx == Index(fr, DELIM)
    IN  IF idx = 0
        THEN fr
        ELSE LET idents    == SliceTo(fr, idx - 1)
                 msg_parts == SliceFrom(fr, idx + 1)
                 new_hmac  == make_signer(signer, msg_parts)
             IN  idents \o <<DELIM, new_hmac>> \o msg_parts

\* resign splitting at the last delimiter of the frames instead of the first.
resign_at_last_delim(fr, signer) ==
    LET idx == IF \E i \in 1..Len(fr) : fr[i] = DELIM
               THEN CHOOSE i \in 1..Len(fr) : fr[i] = DELIM /\ \A j \in (i + 1)..Len(fr) : fr[j] # DELIM
               ELSE 0
    IN  IF idx = 0
        THEN fr
        ELSE LET idents    == SliceTo(fr, idx - 1)
                 msg_parts == SliceFrom(fr, idx + 1)
                 new_hmac  == make_signer(signer, SliceTo(msg_parts, 4))
             IN  idents \o <<DELIM, new_hmac>> \o msg_parts

\* resign leaving a message as it came when it carries no authentication code
\* (the frame after the delimiter is empty or absent).
resign_if_signed(fr, signer) ==
    LET idx == Index(fr, DELIM)
    IN  IF idx = 0 \/ Len(fr) = idx \/ fr[idx + 1] = <<>>
        THEN fr
        ELSE LET idents    == SliceTo(fr, idx - 1)
                 msg_parts == SliceFrom(fr, idx + 1)
                 new_hmac  == make_signer(signer, SliceTo(msg_parts, 4))
             IN  idents \o <<DELIM, new_hmac>> \o msg_parts

\* proxy.py:67-76.  signer is the secret of the signer passed in.
resign(fr, signer) ==
    LET idx == Index(fr, DELIM)
    IN  IF idx = 0
        THEN fr
        ELSE LET idents    == SliceTo(fr, idx - 1)
                 msg_parts == SliceFrom(fr, idx + 1)
                 new_hmac  == make_signer(signer, SliceTo(msg_parts, 4))
             IN  idents \o <<DELIM, new_hmac>> \o msg_parts

(***************************************************************************)
(* Values shared by both specifications.                                   *)
(***************************************************************************)
\* Python's None, and a value that is present.
None == <<>>
Some(x) == <<x>>

\* Secrets a connection file may hold in "key" (UTF-8 encoded): the empty
\* secret, "F", "F\u0000" and "K".
Secrets == {<<>>, <<70>>, <<70, 0>>, <<75>>}

\* fr holds the delimiter, an authentication frame and four envelope frames.
HasEnvelope(fr) ==
    \E i \in 1..Len(fr) :
        /\ fr[i] = DELIM
        /\ \A j \in 1..(i - 1) : fr[j] # DELIM
        /\ Len(fr) >= i + 5

\* The position of the first delimiter of fr (fr holds one).
DelimAt(fr) == CHOOSE i \in 1..Len(fr) : fr[i] = DELIM /\ \A j \in 1..(i - 1) : fr[j] # DELIM

\* What the receiver of a message does with it (and test_resign_message does
\* with resign's result): recompute the authentication code of the four frames
\* after the authentication frame with its own secret and compare.
Validates(msg, k) ==
    LET idx == Index(msg, DELIM)
    IN  /\ idx # 0
        /\ Len(msg) >= idx + 1
        /\ msg[idx + 1] = make_signer(k, SliceTo(SliceFrom(msg, idx + 1), 4))

Channels == {"shell", "control", "stdin", "iopub", "hb"}
RR == {"shell", "control", "stdin"}

\* No call of find_cell_by_id or execute_code.
NIdle ==
    /\ cell_id = ""
    /\ on_output = FALSE
    /\ inbox = <<>>
    /\ outputs = <<>>
    /\ calls = <<>>

\* No call of write_nb_if_unchanged.
WIdle ==
    /\ NIdle
    /\ wpc = "idle"
    /\ nbdir = <<>>
    /\ nb = <<>>
    /\ expected_mtime = 0
    /\ stderr = <<>>
    /\ ret = None

\* The proxy before main has run; SpecResign leaves it there.
BIdle ==
    /\ mainpc = "load"
    /\ started = 0
    /\ ctx = "none"
    /\ client_key = <<>>
    /\ kernel_key = <<>>
    /\ backend_id = None
    /\ pc = [b \in Channels |-> "unstarted"]
    /\ client_id = [b \in Channels |-> None]
    /\ router_last = [b \in Channels |-> None]
    /\ identity = [b \in Channels |-> None]
    /\ fin = [b \in Channels |-> <<>>]
    /\ bin = [b \in Channels |-> <<>>]
    /\ bout = [b \in Channels |-> <<>>]
    /\ fout = [b \in Channels |-> <<>>]
    /\ kshell = None
    /\ nsent = 0
    /\ client_info = None
    /\ exitcode = None
    /\ kernel_info = None
    /\ port_key = ""
    /\ addr = ""

(***************************************************************************)
(* SpecResign: resign applied to every frame sequence of at most MaxFrames *)
(* frames over FrameAlphabet, with a signer for every secret, and the      *)
(* result validated with every secret.                                     *)
(***************************************************************************)
FrameAlphabet == {DELIM, <<1>>, <<2>>}

SeqsUpTo(S, n) == UNION {[1..k -> S] : k \in 0..n}

FInit ==
    /\ fpc = "call"
    /\ frames \in SeqsUpTo(FrameAlphabet, MaxFrames)
    /\ key \in Secrets
    /\ key2 \in Secrets
    /\ result = <<>>
    /\ accepted = FALSE
    /\ BIdle
    /\ WIdle
    /\ in_use = {}
    /\ fs = <<>>

\* result = resign(frames, make_signer(key))
call_resign ==
    /\ fpc = "call"
    /\ result' = resign(frames, key)
    /\ fpc' = "resigned"
    /\ UNCHANGED <<frames, key, key2, accepted, bvars, dvars, wvars>>

\* the receiver, holding key2, checks the message it was sent
call_validate ==
    /\ fpc = "resigned"
    /\ accepted' = Validates(result, key2)
    /\ fpc' = "validated"
    /\ UNCHANGED <<frames, key, key2, result, bvars, dvars, wvars>>

FNext == call_resign \/ call_validate

SpecResign == FInit /\ [][FNext]_vars

(***************************************************************************)
(* Claims about resign and make_signer (checked under SpecResign).         *)
(***************************************************************************)
\* k without its trailing zero bytes.
RECURSIVE StripZeros(_)
StripZeros(k) ==
    IF k # <<>> /\ k[Len(k)] = 0 THEN StripZeros(SubSeq(k, 1, Len(k) - 1)) ELSE k

\* C1: for every frame sequence holding the delimiter, an authentication frame
\* and four envelope frames, and every secret, the frame resign puts right
\* after the delimiter is the signer of that secret applied to exactly the
\* four envelope frames.
C1_ResignSignsEnvelope ==
    (fpc # "call" /\ HasEnvelope(frames)) =>
        LET i == DelimAt(frames)
        IN  /\ result[i] = DELIM
            /\ result[i + 1] =
                 make_signer(key, <<frames[i + 2], frames[i + 3], frames[i + 4], frames[i + 5]>>)

\* A message with an identity frame, a non-empty secret and an old
\* authentication frame that resign replaced.
C1_Witness ==
    /\ fpc = "resigned"
    /\ HasEnvelope(frames)
    /\ DelimAt(frames) = 2
    /\ key = <<75>>
    /\ frames[4] # frames[5]
    /\ result[3] # frames[3]

\* C2: a frame sequence without the delimiter comes back from resign exactly
\* as it went in, whatever the signer.
C2_PassthroughWithoutDelim ==
    (fpc # "call" /\ \A i \in 1..Len(frames) : frames[i] # DELIM) => result = frames

\* Three delimiter-free frames went through a signer with a non-empty secret.
C2_Witness ==
    /\ fpc = "resigned"
    /\ Len(frames) = 3
    /\ \A i \in 1..Len(frames) : frames[i] # DELIM
    /\ key # <<>>
    /\ result = frames

\* C5 as stated: signed for one of two distinct non-empty secrets, a message is
\* never accepted under the other.
C5_KeyIsolation ==
    (fpc = "validated" /\ HasEnvelope(frames) /\ key # <<>> /\ key2 # <<>> /\ key # key2)
        => ~accepted

\* C5 as amended: signed for one of two non-empty secrets that differ in more
\* than trailing zero bytes, a message is never accepted under the other.
C5_KeyIsolationUpToPadding ==
    (fpc = "validated" /\ HasEnvelope(frames) /\ key # <<>> /\ key2 # <<>>
        /\ StripZeros(key) # StripZeros(key2))
        => ~accepted

\* A message signed for "K" was checked under "F" and rejected.
C5_Witness ==
    /\ fpc = "validated"
    /\ HasEnvelope(frames)
    /\ key = <<75>>
    /\ key2 = <<70>>
    /\ ~accepted

\* C17: the signer of the empty secret returns the empty frame for every list
\* of parts, so resign with it puts an empty frame in the place of the
\* authentication frame; the signer of a non-empty secret never returns the
\* empty frame.
C17_EmptySecretDisablesAuth ==
    /\ fpc = "call" =>
          \A n \in 0..Len(frames) :
              (make_signer(key, SliceTo(frames, n)) = <<>>) <=> (key = <<>>)
    /\ (fpc # "call" /\ Index(frames, DELIM) # 0) =>
          ((result[Index(frames, DELIM) + 1] = <<>>) <=> (key = <<>>))

\* A message signed with a non-empty secret went through the signer of the
\* empty secret and came out with an empty authentication frame.
C17_Witness ==
    /\ fpc = "resigned"
    /\ key = <<>>
    /\ HasEnvelope(frames)
    /\ frames[DelimAt(frames) + 1] # <<>>
    /\ result[DelimAt(frames) + 1] = <<>>
    /\ Len(result) = Len(frames)

\* C19: of a frame sequence that holds the delimiter, resign changes the
\* authentication frame only: the frames up to and including the delimiter and
\* the frames after the authentication frame (the envelope and the attachments)
\* come out unchanged and in their order, no frame is added to or taken from a
\* sequence that has an authentication frame, and the new authentication frame
\* is the same whatever attachment frames follow the envelope.
C19_OnlyAuthFrameChanges ==
    (fpc # "call" /\ Index(frames, DELIM) # 0) =>
        LET i == Index(frames, DELIM)
        IN  /\ SliceTo(result, i) = SliceTo(frames, i)
            /\ SliceFrom(result, i + 1) = SliceFrom(frames, i + 1)
            /\ Len(frames) > i => Len(result) = Len(frames)
            /\ Len(frames) >= i + 5 =>
                  /\ result[i + 1] = resign(SliceTo(frames, i + 5), key)[i + 1]
                  /\ \A a \in FrameAlphabet :
                        resign(Append(frames, a), key)[i + 1] = result[i + 1]

\* A message with an identity frame and an attachment frame was re-signed with
\* a non-empty secret: the authentication frame changed, nothing else did.
C19_Witness ==
    /\ fpc = "resigned"
    /\ key = <<75>>
    /\ HasEnvelope(frames)
    /\ Len(frames) = 7
    /\ frames[1] = <<1>>
    /\ DelimAt(frames) = 2
    /\ frames[3] = <<2>>
    /\ result[3] # frames[3]
    /\ \A j \in {1, 2, 4, 5, 6, 7} : result[j] = frames[j]

\* C30 as stated: for every frame sequence that holds the delimiter, resign
\* returns as many frames as it was given, all but the frame right after the
\* first delimiter as given -- also when the delimiter is the last frame or
\* fewer than four frames follow the authentication frame.
C30_SameFrameCount ==
    (fpc # "call" /\ Index(frames, DELIM) # 0) =>
        /\ Len(result) = Len(frames)
        /\ \A j \in 1..Len(frames) : j # Index(frames, DELIM) + 1 => result[j] = frames[j]

\* C30 as amended: every frame given comes back in its place but the one right
\* after the first delimiter; the result has as many frames as the input when
\* a frame follows the delimiter, and one more, the new authentication frame,
\* when the delimiter is the last frame.
C30_SameFrameCountUnlessDelimLast ==
    (fpc # "call" /\ Index(frames, DELIM) # 0) =>
        LET i == Index(frames, DELIM)
        IN  /\ Len(result) = (IF Len(frames) = i THEN i + 1 ELSE Len(frames))
            /\ \A j \in 1..Len(frames) : j # i + 1 => result[j] = frames[j]
            /\ Len(frames) = i => result[i + 1] = make_signer(key, <<>>)

\* An identity frame and the delimiter, nothing after it, re-signed with a
\* non-empty secret: three frames came back.
C30_Witness ==
    /\ fpc = "resigned"
    /\ frames = <<<<1>>, DELIM>>
    /\ key = <<75>>
    /\ Len(result) = 3
    /\ result[3] # <<>>

\* fr, a frame sequence with its first delimiter at i, carrying a as its
\* authentication frame (in place of the one it has, or behind the delimiter
\* if it has none).
WithAuthFrame(fr, i, a) == SliceTo(fr, i) \o <<a>> \o SliceFrom(fr, i + 1)

\* The authentication frames a message may arrive with: any frame, the empty
\* frame, and the authentication code of its envelope under the secret k of
\* the side it comes from.
AuthFrames(fr, i, k) ==
    FrameAlphabet \cup {<<>>, make_signer(k, SliceTo(SliceFrom(fr, i + 1), 4))}

\* C31: what resign returns for a frame sequence that holds the delimiter does
\* not depend on the frame after the delimiter: the same sequence with any
\* other authentication frame there -- valid under the sender's secret (key2,
\* any secret), invalid, empty -- or, when the delimiter is last, with one
\* added, gives the same result;
\* and the result is valid under the secret of the signer passed in, whatever
\* the incoming authentication frame was.
C31_IgnoresSourceSignature ==
    (fpc # "call" /\ Index(frames, DELIM) # 0) =>
        LET i == Index(frames, DELIM)
        IN  /\ \A a \in AuthFrames(frames, i, key2) :
                  resign(WithAuthFrame(frames, i, a), key) = result
            /\ Validates(result, key)

\* A message whose authentication frame is valid under no secret was re-signed
\* with a non-empty secret, and the receiver holding that secret accepted it.
C31_Witness ==
    /\ fpc = "validated"
    /\ frames = <<<<1>>, DELIM, <<2>>, <<1>>, <<2>>, <<1>>, <<2>>>>
    /\ \A k \in Secrets : ~Validates(frames, k)
    /\ key = <<75>>
    /\ key2 = key
    /\ accepted
    /\ result[3] # frames[3]

(***************************************************************************)
(* Connection descriptors, the files they are read from, and endpoints.    *)
(*                                                                         *)
(* A JSON object (a Python dict) is a function on its keys; text is a      *)
(* string.  A call that raises returns Raised(e) where the result is an    *)
(* object, and the text of the exception where the result is a string.     *)
(***************************************************************************)
\* d with d[k] = v (the assignment d[k] = v, and a dict literal extended).
With(d, k, v) == [x \in DOMAIN d \cup {k} |-> IF x = k THEN v ELSE d[x]]

\* d without the key k.
Without(d, k) == [x \in DOMAIN d \ {k} |-> d[x]]

\* dict.get(k, default)
Get(d, k, default) == IF k \in DOMAIN d THEN d[k] ELSE default

Raised(e) == [raised |-> e]
Raises(r) == "raised" \in DOMAIN r

\* The text of KeyError(k).
KeyError(k) == "KeyError: '" \o k \o "'"

\* The decimal digits.
Digit == <<"0", "1", "2", "3", "4", "5", "6", "7", "8", "9">>

RECURSIVE str_int(_)
\* format(n, "") of an int n, as the f-strings of zmq_addr render a port:
\* decimal, most significant digit first, no padding.
str_int(n) ==
    IF n < 0 THEN "-" \o str_int(-n)
    ELSE IF n < 10 THEN Digit[n + 1]
    ELSE str_int(n \div 10) \o Digit[(n % 10) + 1]

\* zmq_addr with the two separators exchanged.
zmq_addr_separators_swapped(info, pk) ==
    LET transport == Get(info, "transport", "tcp")
    IN  IF "ip" \notin DOMAIN info THEN KeyError("ip")
        ELSE IF pk \notin DOMAIN info THEN KeyError(pk)
        ELSE IF transport = "ipc"
             THEN "ipc://" \o info["ip"] \o ":" \o str_int(info[pk])
             ELSE "tcp://" \o info["ip"] \o "-" \o str_int(info[pk])

\* zmq_addr with every transport but tcp taken for a local socket.
zmq_addr_default_ipc(info, pk) ==
    LET transport == Get(info, "transport", "ipc")
    IN  IF "ip" \notin DOMAIN info THEN KeyError("ip")
        ELSE IF pk \notin DOMAIN info THEN KeyError(pk)
        ELSE IF transport = "ipc"
             THEN "ipc://" \o info["ip"] \o "-" \o str_int(info[pk])
             ELSE "tcp://" \o info["ip"] \o ":" \o str_int(info[pk])

\* proxy.py:45-51.
zmq_addr(info, pk) ==
    LET transport == Get(info, "transport", "tcp")
    IN  IF "ip" \notin DOMAIN info THEN KeyError("ip")
        ELSE IF pk \notin DOMAIN info THEN KeyError(pk)
        ELSE IF transport = "ipc"
             THEN "ipc://" \o info["ip"] \o "-" \o str_int(info[pk])
             ELSE "tcp://" \o info["ip"] \o ":" \o str_int(info[pk])

\* a is an endpoint, not the text of an exception.
IsEndpoint(a) == Len(a) >= 6 /\ SubSeq(a, 4, 6) = "://"

\* The content of a file: a JSON document, or text that is none.
Json(obj) == [json |-> obj]
NotJson == [text |-> "{"]

\* json.load(open(path)), json.loads(Path(path).read_text())
read_json(files, path) ==
    IF path \notin DOMAIN files THEN Raised("FileNotFoundError")
    ELSE IF "json" \notin DOMAIN files[path] THEN Raised("JSONDecodeError")
    ELSE files[path].json

RECURSIVE path_str(_)
\* str(Path(d)): pathlib drops the slashes a path ends with.
path_str(d) ==
    IF Len(d) > 1 /\ SubSeq(d, Len(d), Len(d)) = "/"
    THEN path_str(SubSeq(d, 1, Len(d) - 1))
    ELSE d

\* str(Path(d) / name)
path_join(d, name) ==
    IF path_str(d) = "/" THEN "/" \o name ELSE path_str(d) \o "/" \o name

\* load_kernel_info overriding the address whether or not the state names a
\* local-socket directory.
load_kernel_info_always_override(files, state_dir) ==
    LET state == read_json(files, path_join(state_dir, "state.json"))
    IN  IF Raises(state) THEN state
        ELSE IF "connection_file" \notin DOMAIN state THEN Raised(KeyError("connection_file"))
        ELSE LET conn_data == read_json(files, state["connection_file"])
                 ipc_dir   == Get(state, "ipc_dir", "")
             IN  IF Raises(conn_data) THEN conn_data
                 ELSE With(conn_data, "ip", path_join(ipc_dir, "kernel"))

\* proxy.py:29-42.  state.get("ipc_dir") is None or a string; None and the
\* empty string both fail `if ipc_dir:`, and "" stands for both.
load_kernel_info(files, state_dir) ==
    LET state == read_json(files, path_join(state_dir, "state.json"))
    IN  IF Raises(state) THEN state
        ELSE IF "connection_file" \notin DOMAIN state THEN Raised(KeyError("connection_file"))
        ELSE LET conn_data == read_json(files, state["connection_file"])
                 ipc_dir   == Get(state, "ipc_dir", "")
             IN  IF Raises(conn_data) THEN conn_data
                 ELSE IF ipc_dir # "" THEN With(conn_data, "ip", path_join(ipc_dir, "kernel"))
                 ELSE conn_data

\* The code point of a character of a secret.
Ord(ch) == CASE ch = "F" -> 70 [] ch = "K" -> 75

RECURSIVE encode(_)
\* str.encode() of a secret (ASCII: one byte per character).
encode(s) == IF s = "" THEN <<>> ELSE <<Ord(Head(s))>> \o encode(Tail(s))

\* args.state_dir, and the kernel's connection file named in state.json.
StateDir == ".nb"
KernelFile == "/run/kernel.json"

\* The five port keys main passes to zmq_addr (proxy.py:202, 222-223, 234-235).
PortKey == [shell |-> "shell_port", control |-> "control_port", stdin |-> "stdin_port",
            iopub |-> "iopub_port", hb |-> "hb_port"]

(***************************************************************************)
(* SpecResolve: load_kernel_info applied to every file system of           *)
(* ResolveFiles, and zmq_addr applied to the descriptor it returned with   *)
(* every port key.                                                         *)
(***************************************************************************)
\* Kernel descriptors: every combination of a transport (or none), an address
\* and a port numbering; the three descriptors of test_collab.py:177-196; and
\* descriptors that lack the address or a port.
Descriptor(ip, base) ==
    [ip |-> ip, key |-> "K", shell_port |-> base, iopub_port |-> base + 1,
     stdin_port |-> base + 2, control_port |-> base + 3, hb_port |-> base + 4]

PortBases == {0, 96, 5555, 65531}

KernelDescriptors ==
    {Descriptor(ip, base) : ip \in {"127.0.0.1", "/tmp/kernel"}, base \in PortBases}
    \cup {With(Descriptor(ip, base), "transport", t) :
            ip \in {"127.0.0.1", "/tmp/kernel"}, base \in PortBases, t \in {"tcp", "ipc"}}
    \cup {[ip |-> "127.0.0.1", shell_port |-> 5555, transport |-> "tcp"],
          [ip |-> "/tmp/kernel", shell_port |-> 5555, transport |-> "ipc"],
          [ip |-> "0.0.0.0", iopub_port |-> 9999],
          Without(Descriptor("127.0.0.1", 5555), "ip")}

\* state.json: without a local-socket directory, with an empty one, and with
\* two directories (test_collab.py:251, 275-279).
StateJsons ==
    LET plain == [connection_file |-> KernelFile, notebook |-> "test.ipynb"]
    IN  {plain, With(plain, "ipc_dir", ""), With(plain, "ipc_dir", "/tmp/ipc"),
         With(plain, "ipc_dir", "/run/nb/")}

StateFile == path_join(StateDir, "state.json")

ResolveFiles ==
    {(StateFile :> Json(st)) @@ (KernelFile :> Json(d)) : st \in StateJsons, d \in KernelDescriptors}
    \cup {(KernelFile :> Json(Descriptor("127.0.0.1", 5555))),
          (StateFile :> NotJson) @@ (KernelFile :> Json(Descriptor("127.0.0.1", 5555))),
          (StateFile :> Json([notebook |-> "test.ipynb"]))
              @@ (KernelFile :> Json(Descriptor("127.0.0.1", 5555))),
          (StateFile :> Json([connection_file |-> KernelFile])),
          (StateFile :> Json([connection_file |-> KernelFile])) @@ (KernelFile :> NotJson)}

RInit ==
    /\ fpc = "idle"
    /\ frames = <<>>
    /\ key = <<>>
    /\ key2 = <<>>
    /\ result = <<>>
    /\ accepted = FALSE
    /\ BIdle
    /\ WIdle
    /\ in_use = {}
    /\ fs \in ResolveFiles

\* kernel_info = load_kernel_info(state_dir)
call_load_kernel_info ==
    /\ kernel_info = None
    /\ kernel_info' = load_kernel_info(fs, StateDir)
    /\ UNCHANGED <<fvars, wvars, bvars, fs, port_key, addr>>

\* addr = zmq_addr(kernel_info, port_key)
call_zmq_addr ==
    /\ kernel_info # None
    /\ ~Raises(kernel_info)
    /\ addr = ""
    /\ \E b \in DOMAIN PortKey :
          /\ port_key' = PortKey[b]
          /\ addr' = zmq_addr(kernel_info, PortKey[b])
    /\ UNCHANGED <<fvars, wvars, bvars, fs, kernel_info>>

RNext == call_load_kernel_info \/ call_zmq_addr

SpecResolve == RInit /\ [][RNext]_vars

(***************************************************************************)
(* Claims about zmq_addr and load_kernel_info (checked under SpecResolve). *)
(***************************************************************************)
\* The value of the decimal digit ch.
DigitValue(ch) == CHOOSE d \in 0..9 : Digit[d + 1] = ch

RECURSIVE DecimalValue(_)
\* The number a string of decimal digits denotes.
DecimalValue(s) ==
    IF s = "" THEN 0
    ELSE 10 * DecimalValue(SubSeq(s, 1, Len(s) - 1)) + DigitValue(SubSeq(s, Len(s), Len(s)))

\* s is the decimal numeral of the natural number n: digits only, no leading zero.
IsNumeralOf(s, n) ==
    /\ Len(s) >= 1
    /\ \A i \in 1..Len(s) : \E d \in 1..10 : SubSeq(s, i, i) = Digit[d]
    /\ Len(s) > 1 => SubSeq(s, 1, 1) # "0"
    /\ DecimalValue(s) = n

\* a is scheme, then ip, then sep, then the numeral of n.
IsEndpointOf(a, scheme, ip, sep, n) ==
    LET k == Len(scheme) + Len(ip)
    IN  /\ Len(a) > k + 1
        /\ SubSeq(a, 1, Len(scheme)) = scheme
        /\ SubSeq(a, Len(scheme) + 1, k) = ip
        /\ SubSeq(a, k + 1, k + 1) = sep
        /\ IsNumeralOf(SubSeq(a, k + 2, Len(a)), n)

\* zmq_addr was called on a descriptor that has the address and the port asked for.
Resolved == addr # "" /\ "ip" \in DOMAIN kernel_info /\ port_key \in DOMAIN kernel_info

\* C15: for a descriptor whose transport is tcp or absent, the endpoint of a
\* channel is tcp://<address>:<port>, the port in decimal; address 127.0.0.1
\* with port 5555 gives tcp://127.0.0.1:5555.
C15_TcpEndpoint ==
    (Resolved /\ Get(kernel_info, "transport", "tcp") = "tcp") =>
        /\ IsEndpointOf(addr, "tcp://", kernel_info["ip"], ":", kernel_info[port_key])
        /\ (kernel_info["ip"] = "127.0.0.1" /\ kernel_info[port_key] = 5555)
              => addr = "tcp://127.0.0.1:5555"

\* The descriptor of test_zmq_addr_default_transport, which names no
\* transport, resolved to the endpoint the test expects.
C15_Witness ==
    /\ kernel_info = [ip |-> "0.0.0.0", iopub_port |-> 9999]
    /\ port_key = "iopub_port"
    /\ addr = "tcp://0.0.0.0:9999"

\* C16: for a descriptor with ipc transport, base path P and channel port N,
\* the endpoint is ipc://P-N, N in decimal (base /tmp/kernel with port 5555
\* gives ipc:///tmp/kernel-5555), and two channels with different ports get
\* different endpoints.
C16_IpcEndpoint ==
    (Resolved /\ Get(kernel_info, "transport", "tcp") = "ipc") =>
        /\ IsEndpointOf(addr, "ipc://", kernel_info["ip"], "-", kernel_info[port_key])
        /\ (kernel_info["ip"] = "/tmp/kernel" /\ kernel_info[port_key] = 5555)
              => addr = "ipc:///tmp/kernel-5555"
        /\ \A b \in DOMAIN PortKey :
              (PortKey[b] \in DOMAIN kernel_info /\ kernel_info[PortKey[b]] # kernel_info[port_key])
                  => zmq_addr(kernel_info, PortKey[b]) # addr

\* A local-socket descriptor with five different ports resolved, for its
\* heartbeat channel, to the socket file /tmp/kernel-100.
C16_Witness ==
    /\ Resolved
    /\ Get(kernel_info, "transport", "tcp") = "ipc"
    /\ DOMAIN PortKey \subseteq {b \in DOMAIN PortKey : PortKey[b] \in DOMAIN kernel_info}
    /\ port_key = "hb_port"
    /\ addr = "ipc:///tmp/kernel-100"

RECURSIVE Squeeze(_)
\* The path s with every run of slashes written as one slash.
Squeeze(s) ==
    IF Len(s) < 2 THEN s
    ELSE IF SubSeq(s, 1, 2) = "//" THEN Squeeze(Tail(s))
    ELSE Head(s) \o Squeeze(Tail(s))

\* C18: load_kernel_info returns the descriptor read from the file state.json
\* names; when the state holds a non-empty local-socket directory D, with the
\* address replaced by the path D/kernel and every other field as read, and
\* otherwise exactly as read.
C18_LoadKernelInfo ==
    LET state     == read_json(fs, StateFile)
        conn_data == read_json(fs, state["connection_file"])
        D         == Get(state, "ipc_dir", "")
    IN  (/\ kernel_info # None
         /\ ~Raises(state)
         /\ "connection_file" \in DOMAIN state
         /\ ~Raises(conn_data)) =>
            IF D # ""
            THEN /\ DOMAIN kernel_info = DOMAIN conn_data \cup {"ip"}
                 /\ kernel_info["ip"] = Squeeze(D \o "/kernel")
                 /\ \A k \in DOMAIN conn_data \ {"ip"} : kernel_info[k] = conn_data[k]
            ELSE kernel_info = conn_data

\* The descriptor of a sandboxed kernel came back with the host-side socket
\* path for its address, and resolved to a socket file under that directory.
C18_Witness ==
    /\ kernel_info # None
    /\ ~Raises(kernel_info)
    /\ Get(read_json(fs, StateFile), "ipc_dir", "") = "/tmp/ipc"
    /\ Get(read_json(fs, KernelFile), "ip", "") = "127.0.0.1"
    /\ kernel_info["ip"] = "/tmp/ipc/kernel"
    /\ addr = "ipc:///tmp/ipc/kernel-5555"

(***************************************************************************)
(* SpecWrite: write_nb_if_unchanged (cli2.py) called with every notebook   *)
(* of Notebooks and every expected_mtime up to MaxTime, on a directory     *)
(* that holds the notebook file, written at any time up to MaxTime, or     *)
(* does not hold it.  Times are in milliseconds.                           *)
(***************************************************************************)
\* The path argument, and the name mkstemp gives the temporary file.
NbPath == "test.ipynb"
TmpPath == "tmp0.ipynb.tmp"

\* cli2.py:183: the tolerance 0.01 s, in milliseconds.
ToleranceMs == 10

Times == 0..MaxTime

\* Notebooks, as their cells: nbformat.v4.new_notebook(), and one with a code cell.
Notebooks == {<<>>, <<[id |-> "c1", source |-> "y = 1"]>>}

\* nbformat.write(nb, f): the JSON document written for the cells nb.
nbformat_write(cells) == [nbformat |-> 4, nbformat_minor |-> 5, cells |-> cells]

Abs(x) == IF x < 0 THEN -x ELSE x

\* cli2.py:184-187: the line printed to sys.stderr.
Warning(path) == "warning: " \o path \o " was modified externally, overwriting anyway"

\* The comparison with the tolerance itself counted as a modification.
modified_externally_inclusive(current_mtime, expected) ==
    Abs(current_mtime - expected) >= ToleranceMs

\* cli2.py:183: abs(current_mtime - expected_mtime) > 0.01
modified_externally(current_mtime, expected) ==
    Abs(current_mtime - expected) > ToleranceMs

\* cli2.py:165-175, when nothing fails: the notebook is written to a temporary
\* file in the target's directory, which is then renamed onto the target; now
\* is the time of the write.
atomic_write_nb(dir, cells, path, now) ==
    LET written == With(dir, TmpPath, [content |-> nbformat_write(cells), mtime |-> now])
    IN  With(Without(written, TmpPath), path, written[TmpPath])

WInit ==
    /\ fpc = "idle"
    /\ frames = <<>>
    /\ key = <<>>
    /\ key2 = <<>>
    /\ result = <<>>
    /\ accepted = FALSE
    /\ BIdle
    /\ in_use = {}
    /\ fs = <<>>
    /\ wpc = "call"
    /\ nbdir \in {<<>>} \cup {(NbPath :> [content |-> nbformat_write(c), mtime |-> t]) :
                                c \in Notebooks, t \in Times}
    /\ nb \in Notebooks
    /\ expected_mtime \in Times
    /\ stderr = <<>>
    /\ ret = None
    /\ NIdle

\* cli2.py:182-187: os.path.getmtime (which raises for a file that is not
\* there), the comparison and the warning.
check_mtime ==
    /\ wpc = "call"
    /\ IF NbPath \in DOMAIN nbdir
       THEN /\ stderr' = IF modified_externally(nbdir[NbPath].mtime, expected_mtime)
                         THEN Append(stderr, Warning(NbPath))
                         ELSE stderr
            /\ wpc' = "checked"
            /\ ret' = ret
       ELSE /\ ret' = Raised("FileNotFoundError")
            /\ wpc' = "raised"
            /\ stderr' = stderr
    /\ UNCHANGED <<nbdir, nb, expected_mtime, fvars, bvars, dvars, nvars>>

\* cli2.py:188-189: atomic_write_nb(nb, path); return True.  The write happens
\* no earlier than the file's last modification.
write_and_return ==
    /\ wpc = "checked"
    /\ \E now \in Times :
          /\ now >= nbdir[NbPath].mtime
          /\ nbdir' = atomic_write_nb(nbdir, nb, NbPath, now)
    /\ ret' = Some(TRUE)
    /\ wpc' = "returned"
    /\ UNCHANGED <<nb, expected_mtime, stderr, fvars, bvars, dvars, nvars>>

WNext == check_mtime \/ write_and_return

SpecWrite == WInit /\ [][WNext]_vars

(***************************************************************************)
(* Claims about write_nb_if_unchanged (checked under SpecWrite).           *)
(***************************************************************************)
\* C20: called on a notebook file, write_nb_if_unchanged writes the notebook
\* (the file then holds it, and the directory nothing else) and returns True,
\* whatever the file's modification time; before it writes, it has printed the
\* 'modified externally' warning if the modification time differs from
\* expected_mtime by more than 0.01 s, and has printed nothing if not.
C20_AlwaysWritesWarnsOnConflict ==
    /\ [](wpc = "checked" =>
            /\ ENABLED write_and_return
            /\ stderr = IF Abs(nbdir[NbPath].mtime - expected_mtime) > 10
                        THEN <<"warning: test.ipynb was modified externally, overwriting anyway">>
                        ELSE <<>>)
    /\ [](wpc = "returned" =>
            /\ ret = Some(TRUE)
            /\ DOMAIN nbdir = {NbPath}
            /\ nbdir[NbPath].content.cells = nb)
    /\ [][/\ (wpc = "call" /\ wpc' = "checked") => nbdir' = nbdir
          /\ wpc = "checked" => (wpc' = "returned" /\ stderr' = stderr)]_vars

\* A file last written 11 ms after the time the caller expected was
\* overwritten with the caller's notebook, after the warning.
C20_Witness ==
    /\ wpc = "returned"
    /\ expected_mtime = 0
    /\ Len(stderr) = 1
    /\ nb # <<>>
    /\ nbdir[NbPath].content.cells = nb
    /\ nbdir[NbPath].mtime = 11

(***************************************************************************)
(* SpecAtomic: one call of atomic_write_nb (cli2.py), on a directory with  *)
(* or without the target file, in which the writing and the renaming may   *)
(* fail.                                                                   *)
(***************************************************************************)
\* What is left in a file when writing the document doc to it is cut short:
\* nothing, or the beginning of the document.
Truncated(doc) == {<<>>, [nbformat |-> doc.nbformat]}

\* An error handler that leaves the temporary file where it is.
unlink_never(dir, tmp) == dir

\* cli2.py:173-174: Path(tmp).unlink(missing_ok=True)
unlink(dir, tmp) == Without(dir, tmp)

\* cli2.py:172: os.rename(tmp, path) -- path now names the file tmp named,
\* replacing the one it named before, and tmp names nothing.
rename(dir, tmp, path) == With(Without(dir, tmp), path, dir[tmp])

AInit ==
    /\ fpc = "idle"
    /\ frames = <<>>
    /\ key = <<>>
    /\ key2 = <<>>
    /\ result = <<>>
    /\ accepted = FALSE
    /\ BIdle
    /\ in_use = {}
    /\ fs = <<>>
    /\ wpc = "call"
    /\ nbdir \in {<<>>} \cup {(NbPath :> [content |-> nbformat_write(c), mtime |-> t]) :
                                c \in Notebooks, t \in Times}
    /\ nb \in Notebooks
    /\ expected_mtime = 0
    /\ stderr = <<>>
    /\ ret = None
    /\ NIdle

\* cli2.py:168: tempfile.mkstemp creates an empty temporary file in the
\* target's directory, or raises (outside the try) and creates nothing.
mkstemp ==
    /\ wpc = "call"
    /\ \/ /\ \E now \in Times :
                /\ \A f \in DOMAIN nbdir : now >= nbdir[f].mtime
                /\ nbdir' = With(nbdir, TmpPath, [content |-> <<>>, mtime |-> now])
          /\ wpc' = "opened"
          /\ ret' = ret
       \/ /\ nbdir' = nbdir
          /\ wpc' = "raised"
          /\ ret' = Raised("OSError: mkstemp")
    /\ UNCHANGED <<nb, expected_mtime, stderr, fvars, bvars, dvars, nvars>>

\* cli2.py:170-171: nbformat.write(nb, f) into the temporary file; it writes
\* the whole document, or raises with the file cut short.
write_tmp ==
    /\ wpc = "opened"
    /\ \/ /\ nbdir' = [nbdir EXCEPT ![TmpPath].content = nbformat_write(nb)]
          /\ wpc' = "written"
          /\ ret' = ret
       \/ /\ \E part \in Truncated(nbformat_write(nb)) :
                nbdir' = [nbdir EXCEPT ![TmpPath].content = part]
          /\ wpc' = "failed"
          /\ ret' = Raised("OSError: write")
    /\ UNCHANGED <<nb, expected_mtime, stderr, fvars, bvars, dvars, nvars>>

\* cli2.py:172: os.rename(tmp, path) renames, after which the function
\* returns (None), or raises and renames nothing.
rename_tmp ==
    /\ wpc = "written"
    /\ \/ /\ nbdir' = rename(nbdir, TmpPath, NbPath)
          /\ wpc' = "returned"
          /\ ret' = Some(None)
       \/ /\ nbdir' = nbdir
          /\ wpc' = "failed"
          /\ ret' = Raised("OSError: rename")
    /\ UNCHANGED <<nb, expected_mtime, stderr, fvars, bvars, dvars, nvars>>

\* cli2.py:173-175: except BaseException: unlink the temporary file; raise
\* (the exception caught, which ret holds).
cleanup_and_raise ==
    /\ wpc = "failed"
    /\ nbdir' = unlink(nbdir, TmpPath)
    /\ ret' = ret
    /\ wpc' = "raised"
    /\ UNCHANGED <<nb, expected_mtime, stderr, fvars, bvars, dvars, nvars>>

ANext == mkstemp \/ write_tmp \/ rename_tmp \/ cleanup_and_raise

SpecAtomic == AInit /\ [][ANext]_vars

(***************************************************************************)
(* Claims about atomic_write_nb (checked under SpecAtomic).                *)
(***************************************************************************)
\* The complete notebook documents.
Complete == {nbformat_write(c) : c \in Notebooks}

\* C21: atomic_write_nb replaces the target only by renaming a completely
\* written temporary file.  The target, whenever it exists, holds a complete
\* notebook document; it changes only in the renaming step, which gives it the
\* new notebook; after the return it holds the new notebook and the directory
\* no temporary file; and after a failure of the writing or the renaming the
\* temporary file is gone and the error is raised.
C21_AtomicReplace ==
    /\ [](NbPath \in DOMAIN nbdir => nbdir[NbPath].content \in Complete)
    /\ [](wpc = "returned" =>
            /\ DOMAIN nbdir = {NbPath}
            /\ nbdir[NbPath].content = nbformat_write(nb))
    /\ [](wpc = "raised" => /\ TmpPath \notin DOMAIN nbdir
                            /\ Raises(ret))
    /\ [][/\ wpc' # "returned" =>
                /\ (NbPath \in DOMAIN nbdir') = (NbPath \in DOMAIN nbdir)
                /\ NbPath \in DOMAIN nbdir => nbdir'[NbPath] = nbdir[NbPath]
          /\ wpc' = "returned" =>
                /\ wpc = "written"
                /\ nbdir[TmpPath].content = nbformat_write(nb)
          /\ wpc = "failed" => (wpc' = "raised" /\ ret' = ret /\ Raises(ret))]_vars

\* The writing was cut short after the beginning of the document; the
\* temporary file is gone, the error raised, and the target still holds the
\* other notebook, with the time it was written at.
C21_Witness ==
    /\ wpc = "raised"
    /\ ret = Raised("OSError: write")
    /\ nb # <<>>
    /\ DOMAIN nbdir = {NbPath}
    /\ nbdir[NbPath] = [content |-> nbformat_write(<<>>), mtime |-> 3]

(***************************************************************************)
(* SpecFind: find_cell_by_id (cli2.py) applied to every notebook of a      *)
(* bounded set and every id asked for.                                     *)
(***************************************************************************)
\* The most cells a notebook holds.
MaxCells == 2

\* The cells: code cells with an id (ids may repeat within a notebook) and,
\* as notebooks older than nbformat 4.5 have them, without.
CellIds == {"cell-0", "cell-1"}
Sources == {"x = 0", "x = 1"}
Cells == [id : CellIds, source : Sources] \cup [source : Sources]

\* The ids asked for: those of the cells, and one no cell has.
AskedIds == CellIds \cup {"nonexistent"}

\* cell.get("id")
cell_get_id(cell) == IF "id" \in DOMAIN cell THEN Some(cell.id) ELSE None

\* The search that returns the last matching cell's index.
RECURSIVE find_last_from(_, _, _)
find_last_from(cells, id, i) ==
    IF i < 1 THEN None
    ELSE IF cell_get_id(cells[i]) = Some(id) THEN <<i - 1, cells[i]>>
    ELSE find_last_from(cells, id, i - 1)

\* cli2.py:196-199: the loop of find_cell_by_id from the cell at (1-based)
\* position i on; enumerate counts from 0.
RECURSIVE find_from(_, _, _)
find_from(cells, id, i) ==
    IF i > Len(cells) THEN None
    ELSE IF cell_get_id(cells[i]) = Some(id) THEN <<i - 1, cells[i]>>
    ELSE find_from(cells, id, i + 1)

find_cell_by_id_last(cells, id) == find_last_from(cells, id, Len(cells))

\* cli2.py:192-199
find_cell_by_id(cells, id) == find_from(cells, id, 1)

CInit ==
    /\ fpc = "idle"
    /\ frames = <<>>
    /\ key = <<>>
    /\ key2 = <<>>
    /\ result = <<>>
    /\ accepted = FALSE
    /\ BIdle
    /\ in_use = {}
    /\ fs = <<>>
    /\ wpc = "call"
    /\ nbdir = <<>>
    /\ nb \in SeqsUpTo(Cells, MaxCells)
    /\ expected_mtime = 0
    /\ stderr = <<>>
    /\ ret = None
    /\ cell_id \in AskedIds
    /\ on_output = FALSE
    /\ inbox = <<>>
    /\ outputs = <<>>
    /\ calls = <<>>

call_find_cell_by_id ==
    /\ wpc = "call"
    /\ ret' = Some(find_cell_by_id(nb, cell_id))
    /\ wpc' = "returned"
    /\ UNCHANGED <<nbdir, nb, expected_mtime, stderr, nvars, fvars, bvars, dvars>>

CNext == call_find_cell_by_id

SpecFind == CInit /\ [][CNext]_vars

(***************************************************************************)
(* Claims about find_cell_by_id (checked under SpecFind).                  *)
(***************************************************************************)
\* The (1-based) positions of the cells of the notebook whose id is the one
\* asked for.
Matches == {i \in 1..Len(nb) : "id" \in DOMAIN nb[i] /\ nb[i].id = cell_id}

\* C22: find_cell_by_id returns the index (counted from 0) and the cell of the
\* first cell, in notebook order, whose id is the one asked for, and None if
\* no cell has that id; the notebook is as it was.
C22_FirstCellWithId ==
    /\ [](wpc = "returned" =>
            IF Matches = {}
            THEN ret = Some(None)
            ELSE \E i \in Matches :
                    /\ \A j \in Matches : i <= j
                    /\ ret = Some(<<i - 1, nb[i]>>))
    /\ [][nb' = nb]_vars

\* Two cells share the id asked for; the first was returned, with index 0.
C22_Witness ==
    /\ wpc = "returned"
    /\ cell_id = "cell-1"
    /\ nb = <<[id |-> "cell-1", source |-> "x = 0"], [id |-> "cell-1", source |-> "x = 1"]>>
    /\ ret = Some(<<0, [id |-> "cell-1", source |-> "x = 0"]>>)

(***************************************************************************)
(* SpecExec: execute_code (cli2.py) run against every sequence of IOPub    *)
(* messages of a bounded set, with and without a callback.                 *)
(***************************************************************************)
\* The most IOPub messages that arrive before the client's receive times out.
MaxMsgs == 3

\* client.execute(code) returns the msg_id of the request.
MsgId == "msg-123"

\* An IOPub message of the given parent header, type and content.
IopubMsg(parent, type, content) ==
    [parent_header |-> parent, msg_type |-> type, content |-> content]

\* The parent headers: of this request, of another one, and an empty one.
Own == [msg_id |-> MsgId]
Foreign == [msg_id |-> "msg-other"]
NoParent == <<>>

\* The messages that may arrive.
IopubMsgs ==
    {IopubMsg(Own, "stream", [name |-> "stdout", text |-> "hello\n"]),
     IopubMsg(Own, "display_data", [data |-> "image/png"]),
     IopubMsg(Own, "update_display_data", [data |-> "image/png", metadata |-> "m"]),
     IopubMsg(Own, "execute_result", [data |-> "text/plain", execution_count |-> 1]),
     IopubMsg(Own, "error", [ename |-> "E", evalue |-> "v", traceback |-> "tb"]),
     IopubMsg(Own, "status", [execution_state |-> "busy"]),
     IopubMsg(Own, "status", [execution_state |-> "idle"]),
     IopubMsg(Foreign, "stream", [name |-> "stdout", text |-> "other\n"]),
     IopubMsg(Foreign, "status", [execution_state |-> "idle"]),
     IopubMsg(NoParent, "status", [execution_state |-> "idle"])}

\* What get_iopub_msg raises when no message arrives within the timeout:
\* jupyter_client's BlockingKernelClient raises queue.Empty; a client that
\* raises the builtin TimeoutError is what execute_code provides for.
ReceiveTimeouts == {"Empty", "TimeoutError"}

\* cli2.py:245-249: the output appended on TimeoutError.
TimedOut == [output_type |-> "stream", name |-> "stderr", text |-> "[execution timed out]"]

\* cli2.py:255: msg["parent_header"].get("msg_id") != msg_id
is_foreign(msg) ==
    (IF "msg_id" \in DOMAIN msg.parent_header THEN Some(msg.parent_header.msg_id) ELSE None)
        # Some(MsgId)

\* cli2.py:258-285: the output made of a message, None if it makes none.
new_output(msg) ==
    LET content == msg.content
    IN  IF msg.msg_type = "stream"
        THEN Some([output_type |-> "stream", name |-> content.name, text |-> content.text])
        ELSE IF msg.msg_type \in {"display_data", "update_display_data"}
        THEN Some([output_type |-> "display_data", data |-> content.data,
                   metadata |-> Get(content, "metadata", "{}")])
        ELSE IF msg.msg_type = "execute_result"
        THEN Some([output_type |-> "execute_result", data |-> content.data,
                   metadata |-> Get(content, "metadata", "{}"),
                   execution_count |-> content.execution_count])
        ELSE IF msg.msg_type = "error"
        THEN Some([output_type |-> "error", ename |-> content.ename,
                   evalue |-> content.evalue, traceback |-> content.traceback])
        ELSE None

\* cli2.py:286-287: elif msg_type == "status" and content["execution_state"] == "idle"
is_idle(msg) == msg.msg_type = "status" /\ msg.content.execution_state = "idle"

\* cli2.py:250-251, 291-292: if on_output: on_output(outputs)
notify(cb, done, outs) == IF cb THEN Append(done, outs) ELSE done

EInit ==
    /\ fpc = "idle"
    /\ frames = <<>>
    /\ key = <<>>
    /\ key2 = <<>>
    /\ result = <<>>
    /\ accepted = FALSE
    /\ BIdle
    /\ in_use = {}
    /\ fs = <<>>
    /\ wpc = "call"
    /\ nbdir = <<>>
    /\ nb = <<>>
    /\ expected_mtime = 0
    /\ stderr = <<>>
    /\ ret = None
    /\ cell_id = ""
    /\ on_output \in BOOLEAN
    /\ inbox \in SeqsUpTo(IopubMsgs, MaxMsgs)
    /\ outputs = <<>>
    /\ calls = <<>>

\* cli2.py:238-239: msg_id = client.execute(code); outputs = []
execute ==
    /\ wpc = "call"
    /\ wpc' = "loop"
    /\ outputs' = <<>>
    /\ UNCHANGED <<nbdir, nb, expected_mtime, stderr, ret, cell_id, on_output, inbox, calls,
                   fvars, bvars, dvars>>

\* cli2.py:241-292: one iteration of the loop in which get_iopub_msg returns
\* a message.
on_message ==
    /\ wpc = "loop"
    /\ inbox # <<>>
    /\ LET msg == Head(inbox)
           out == new_output(msg)
       IN  /\ inbox' = Tail(inbox)
           /\ IF is_foreign(msg)
              THEN UNCHANGED <<outputs, calls, wpc, ret>>
              ELSE IF out # None
              THEN /\ outputs' = Append(outputs, out[1])
                   /\ calls' = notify(on_output, calls, outputs')
                   /\ UNCHANGED <<wpc, ret>>
              ELSE IF is_idle(msg)
              THEN /\ wpc' = "returned"
                   /\ ret' = Some(outputs)
                   /\ UNCHANGED <<outputs, calls>>
              ELSE UNCHANGED <<outputs, calls, wpc, ret>>
    /\ UNCHANGED <<nbdir, nb, expected_mtime, stderr, cell_id, on_output, fvars, bvars, dvars>>

\* cli2.py:242-252: get_iopub_msg raises because no message arrived in time.
\* TimeoutError is caught: the marker is appended, the callback called and
\* the loop left; any other exception leaves execute_code.
on_timeout ==
    /\ wpc = "loop"
    /\ inbox = <<>>
    /\ \E exc \in ReceiveTimeouts :
          IF exc = "TimeoutError"
          THEN /\ outputs' = Append(outputs, TimedOut)
               /\ calls' = notify(on_output, calls, outputs')
               /\ wpc' = "returned"
               /\ ret' = Some(outputs')
          ELSE /\ wpc' = "raised"
               /\ ret' = Raised(exc)
               /\ UNCHANGED <<outputs, calls>>
    /\ UNCHANGED <<nbdir, nb, expected_mtime, stderr, cell_id, on_output, inbox,
                   fvars, bvars, dvars>>

ENext == execute \/ on_message \/ on_timeout

SpecExec == EInit /\ [][ENext]_vars

(***************************************************************************)
(* Claims about execute_code (checked under SpecExec).                     *)
(***************************************************************************)
\* msg is a stream, display, result or error message of this request.
IsOwnOutput(msg) ==
    /\ msg.parent_header = [msg_id |-> "msg-123"]
    /\ msg.msg_type \in {"stream", "display_data", "update_display_data",
                         "execute_result", "error"}

\* msg is an idle status message of this request.
IsOwnIdle(msg) ==
    /\ msg.parent_header = [msg_id |-> "msg-123"]
    /\ msg.msg_type = "status"
    /\ msg.content.execution_state = "idle"

\* C23: while execute_code runs, each message that arrives is handled in its
\* turn: an output message of the own request appends one output (of the
\* message's kind) and on_output is called once, with the list so far; the
\* first idle status of the own request ends the call, which returns the
\* outputs; any other message changes nothing; and when the receive times out
\* the timed-out marker is appended, on_output called with the list, and the
\* call returns the outputs.
C23_CollectsOwnOutputs ==
    [][wpc = "loop" =>
          IF inbox = <<>>
          THEN /\ outputs' = Append(outputs, [output_type |-> "stream", name |-> "stderr",
                                              text |-> "[execution timed out]"])
               /\ calls' = (IF on_output THEN Append(calls, outputs') ELSE calls)
               /\ wpc' = "returned" /\ ret' = Some(outputs')
          ELSE /\ inbox' = Tail(inbox)
               /\ IF IsOwnOutput(Head(inbox))
                  THEN /\ Len(outputs') = Len(outputs) + 1
                       /\ SubSeq(outputs', 1, Len(outputs)) = outputs
                       /\ outputs'[Len(outputs')].output_type =
                             (IF Head(inbox).msg_type = "update_display_data"
                              THEN "display_data" ELSE Head(inbox).msg_type)
                       /\ calls' = (IF on_output THEN Append(calls, outputs') ELSE calls)
                       /\ wpc' = "loop"
                  ELSE IF IsOwnIdle(Head(inbox))
                  THEN /\ wpc' = "returned" /\ ret' = Some(outputs)
                       /\ outputs' = outputs /\ calls' = calls
                  ELSE /\ wpc' = "loop" /\ outputs' = outputs /\ calls' = calls]_vars

(***************************************************************************)
(* Spec: the running proxy.                                                *)
(*                                                                         *)
(* main loads the two secrets, creates the context, draws backend_id and   *)
(* starts the five threads in order; each thread creates its two sockets   *)
(* and then runs its loop, one iteration per step.  The frontend clients   *)
(* and the kernel are the environment: they put messages on the sockets'   *)
(* inbound queues and take them from the outbound ones.                    *)
(***************************************************************************)
\* proxy.py:202, 218-241: the order in which main starts the threads.
ThreadOrder == <<"shell", "control", "stdin", "iopub", "hb">>

\* args.connection_file
ConnectionFile == "client.json"

\* The descriptor the frontend wrote (secret "F") and the kernel's (secret "K").
ClientDescriptor == With(With(Descriptor("127.0.0.1", 5555), "key", "F"), "transport", "tcp")
KernelDescriptor == Descriptor("127.0.0.1", 6001)

\* The files main is started on: well-formed ones, with an authenticated and
\* with an unauthenticated kernel (its descriptor names no key); and, one
\* defect each, a missing frontend descriptor, a state.json that is no JSON, a
\* state.json without "connection_file", a missing kernel descriptor, a
\* frontend descriptor without "ip" and a kernel descriptor without
\* "control_port".
GoodFiles ==
    (ConnectionFile :> Json(ClientDescriptor))
        @@ (StateFile :> Json([connection_file |-> KernelFile]))
        @@ (KernelFile :> Json(KernelDescriptor))

FileSystems ==
    {GoodFiles,
     With(GoodFiles, KernelFile, Json(Without(KernelDescriptor, "key"))),
     Without(GoodFiles, ConnectionFile),
     With(GoodFiles, StateFile, NotJson),
     With(GoodFiles, StateFile, Json([notebook |-> "test.ipynb"])),
     Without(GoodFiles, KernelFile),
     With(GoodFiles, ConnectionFile, Json(Without(ClientDescriptor, "ip"))),
     With(GoodFiles, KernelFile, Json(Without(KernelDescriptor, "control_port")))}

\* What another process may have bound before the proxy starts: nothing, or
\* all five endpoints of the frontend's descriptor.
EndpointsInUse == {{}, {zmq_addr(ClientDescriptor, PortKey[b]) : b \in Channels}}

\* The two termination signals and their numbers.
Signals == {"SIGTERM", "SIGINT"}
Signum == [SIGTERM |-> 15, SIGINT |-> 2]

\* The values uuid.uuid4().bytes may return in a run.  The code never looks
\* into the 16 random bytes, so one (shortened) value stands for all of them.
Uuids == {<<201>>}

\* The routing identities of the frontend clients' sockets.
Clients == {<<11>>, <<12>>}

\* b"{}"
EmptyDict == <<123, 125>>

\* A Jupyter message: delimiter, authentication frame, the four envelope frames.
Message(k, header, parent) ==
    <<DELIM, make_signer(k, <<header, parent, EmptyDict, EmptyDict>>),
      header, parent, EmptyDict, EmptyDict>>

\* The header of a request of client c (it names the client's session).
ReqHeader(c) == <<123>> \o c
\* The headers of the kernel's reply, input request and broadcast messages.
ReplyHeader == <<114>>
InputHeader == <<105>>
StatusHeader == <<115>>

\* What a client may send on a channel (without the identity frame the ROUTER
\* socket prepends): on a request/reply channel a request signed with the
\* frontend's secret; on the heartbeat channel a ping, or a payload that holds
\* the delimiter; on the broadcast channel only its SUB socket's subscription.
FrontendPayloads(b, c) ==
    IF b \in RR THEN {Message(client_key, ReqHeader(c), EmptyDict)}
    ELSE IF b = "hb" THEN {<<<<>>, <<112>>>>, <<<<>>, DELIM, <<112>>, <<113>>>>}
    ELSE {<<<<1>>>>}

\* What the kernel may publish: a status message under a topic with one
\* attachment frame, or frames that are no Jupyter message.
KernelBroadcasts ==
    {<<StatusHeader>> \o Message(kernel_key, StatusHeader, EmptyDict) \o <<<<7>>>>,
     <<<<112>>>>}

\* A test of the client slot that an empty slot passes.
Truthy_even_if_empty(cid) == TRUE

\* `if client_id:` -- neither None nor an empty frame.
Truthy(cid) == cid # None /\ cid[1] # <<>>

\* ctx.destroy(linger=0) closes every socket of the context and discards the
\* messages still waiting on them (and, with the sockets, what they last
\* handed over).
Discarded == [b \in Channels |-> <<>>]

Init ==
    /\ fpc = "idle"
    /\ frames = <<>>
    /\ key = <<>>
    /\ key2 = <<>>
    /\ result = <<>>
    /\ accepted = FALSE
    /\ BIdle
    /\ WIdle
    /\ fs \in FileSystems
    /\ in_use \in EndpointsInUse

\* proxy.py:184-199: read both descriptors, build the signers, create the
\* context and draw backend_id.
main_load ==
    /\ mainpc = "load"
    /\ LET ci == read_json(fs, ConnectionFile)
           ki == load_kernel_info(fs, StateDir)
       IN  /\ ~Raises(ci)
           /\ ~Raises(ki)
           /\ client_info' = ci
           /\ kernel_info' = ki
           /\ client_key' = encode(Get(ci, "key", ""))
           /\ kernel_key' = encode(Get(ki, "key", ""))
    /\ ctx' = "live"
    /\ \E u \in Uuids : backend_id' = Some(u)
    /\ mainpc' = "spawn"
    /\ UNCHANGED <<started, pc, client_id, identity, router_last, fin, bin, bout, fout, kshell,
                   nsent, in_use, exitcode, fs, port_key, addr, fvars, wvars>>

\* The process ends with the given status: its threads (daemon threads) end
\* with it, and its sockets and what waits on them are gone.  The context
\* ends undestroyed unless _shutdown has destroyed it.
ProcessEnds(status) ==
    /\ mainpc' = "exited"
    /\ exitcode' = Some(status)
    /\ pc' = [b \in Channels |-> IF pc[b] \in {"setup", "loop"} THEN "killed" ELSE pc[b]]
    /\ client_id' = [b \in Channels |-> None]
    /\ router_last' = [b \in Channels |-> None]
    /\ fin' = Discarded /\ bin' = Discarded /\ bout' = Discarded /\ fout' = Discarded
    /\ ctx' = IF ctx = "live" THEN "gone" ELSE ctx
    /\ UNCHANGED <<started, client_key, kernel_key, backend_id, identity, kshell, nsent,
                   client_info, in_use, fs, kernel_info, port_key, addr, fvars, wvars>>

\* proxy.py:184-187: open, json.load or load_kernel_info raises; nothing
\* catches it and the interpreter exits with status 1.
main_load_fails ==
    /\ mainpc = "load"
    /\ Raises(read_json(fs, ConnectionFile)) \/ Raises(load_kernel_info(fs, StateDir))
    /\ ProcessEnds(1)

\* proxy.py:201-241: evaluate the two endpoints of the next channel and start
\* its thread.
main_start_thread ==
    /\ mainpc = "spawn"
    /\ started < Len(ThreadOrder)
    /\ LET b == ThreadOrder[started + 1]
       IN  /\ IsEndpoint(zmq_addr(client_info, PortKey[b]))
           /\ IsEndpoint(zmq_addr(kernel_info, PortKey[b]))
           /\ pc' = [pc EXCEPT ![b] = "setup"]
    /\ started' = started + 1
    /\ mainpc' = IF started' = Len(ThreadOrder) THEN "announce" ELSE "spawn"
    /\ UNCHANGED <<ctx, client_key, kernel_key, backend_id, client_id, identity, router_last,
                   fin, bin, bout, fout, kshell, nsent, svars, dvars, fvars, wvars>>

\* proxy.py:207-208, 222-223, 234-235: zmq_addr raises KeyError for the next
\* channel, in the argument list of its Thread; nothing catches it and the
\* interpreter exits with status 1, ending the threads started before.
main_start_fails ==
    /\ mainpc = "spawn"
    /\ started < Len(ThreadOrder)
    /\ LET b == ThreadOrder[started + 1]
       IN  \/ ~IsEndpoint(zmq_addr(client_info, PortKey[b]))
           \/ ~IsEndpoint(zmq_addr(kernel_info, PortKey[b]))
    /\ ProcessEnds(1)

\* proxy.py:243-258: announce, install _shutdown for SIGTERM and SIGINT and
\* block in stop.wait().
main_install_handlers ==
    /\ mainpc = "announce"
    /\ mainpc' = "wait"
    /\ UNCHANGED <<started, ctx, client_key, kernel_key, backend_id, pc, client_id, identity,
                   router_last, fin, bin, bout, fout, kshell, nsent, svars, dvars, fvars, wvars>>

\* Signal s arrives before main has installed _shutdown.  SIGTERM has its
\* default disposition and ends the process; SIGINT raises KeyboardInterrupt
\* in main, which nothing catches, and the interpreter ends the process by
\* that signal.  Either way the status is that of a process ended by s.
signal_default(s) ==
    /\ mainpc \in {"load", "spawn", "announce"}
    /\ ProcessEnds(-Signum[s])

\* A destroy that acts on a context already destroyed.
destroy_again(c) == IF c = "live" THEN "destroyed" ELSE "destroyed twice"

\* proxy.py:254: ctx.destroy(linger=0) closes the sockets of a live context
\* and terminates it; on a context already closed it returns at once.
destroy(c) == IF c = "live" THEN "destroyed" ELSE c

\* proxy.py:251-257: signal s arrives while main is in stop.wait(), or after
\* an earlier signal while main has not yet returned; _shutdown sets stop and
\* destroys the context with linger 0.
_shutdown(s) ==
    /\ mainpc \in {"wait", "stopping"}
    /\ s \in Signals
    /\ ctx' = destroy(ctx)
    /\ fin' = Discarded /\ bin' = Discarded /\ bout' = Discarded /\ fout' = Discarded
    /\ router_last' = [b \in Channels |-> None]
    /\ mainpc' = "stopping"
    /\ UNCHANGED <<started, client_key, kernel_key, backend_id, pc, client_id, identity,
                   kshell, nsent, client_info, in_use, exitcode, dvars, fvars, wvars>>

\* proxy.py:258: stop.wait() returns, main returns and the interpreter exits
\* with status 0.
main_exit ==
    /\ mainpc = "stopping"
    /\ ProcessEnds(0)

(***************************************************************************)
(* The bridge threads.                                                     *)
(***************************************************************************)
\* The Stdin bridge given an identity of its own (a second uuid4 draw).
backend_identity_per_bridge(b) ==
    IF b = "stdin" THEN Some(<<202>>) ELSE backend_id

\* proxy.py:199, 211, 87: the backend_id argument of run_router_dealer, which
\* becomes backend.identity.
backend_identity(b) == backend_id

\* The signers swapped.
to_backend_swapped(msg) == resign(msg, client_key)
to_frontend_swapped(msg) == resign(msg, kernel_key)

\* proxy.py:106 with 192: resign(frames[1:], sign_to_backend).
to_backend(msg) == resign(msg, kernel_key)

\* proxy.py:111, 130 with 193: resign(frames, sign_to_frontend).
to_frontend(msg) == resign(msg, client_key)

\* client_id kept from the first frontend message on.
first_client_id(old, fr) == IF old = None THEN Some(fr[1]) ELSE old

\* proxy.py:105, 156: client_id = frames[0].
next_client_id(old, fr) == Some(fr[1])

\* The heartbeat bridge treating its traffic as Jupyter messages.
hb_forward_resigned(msg) == resign(msg, kernel_key)

\* proxy.py:157, 162: heartbeat frames go out as they came in.
hb_forward(msg) == msg

\* The poll error swallowed: the loop goes round again.
on_poll_error_continue == "loop"

\* proxy.py:99-100, 128-129, 151-152: `except zmq.ZMQError: break`.
on_poll_error == "exited"

\* proxy.py:83-92, 118-123, 136-144: the thread creates and binds/connects its
\* sockets.  On a destroyed context ctx.socket raises, and on an endpoint that
\* is in use frontend.bind raises; nothing in the thread catches either and
\* the thread dies.
setup(b) ==
    /\ pc[b] = "setup"
    /\ IF ctx = "live" /\ zmq_addr(client_info, PortKey[b]) \notin in_use
       THEN /\ pc' = [pc EXCEPT ![b] = "loop"]
            /\ identity' = [identity EXCEPT ![b] = IF b \in RR THEN backend_identity(b) ELSE None]
       ELSE /\ pc' = [pc EXCEPT ![b] = "died"]
            /\ UNCHANGED identity
    /\ UNCHANGED <<mainpc, started, ctx, client_key, kernel_key, backend_id, client_id,
                   router_last, fin, bin, bout, fout, kshell, nsent, fvars, svars, dvars, wvars>>

\* One client slot that all bridges write.
assign_client_id_shared(slots, b, cid) == [o \in DOMAIN slots |-> cid]

\* proxy.py:105, 156: `client_id = frames[0]` assigns the local variable of the
\* loop that runs it; every loop has its own.
assign_client_id(slots, b, cid) == [slots EXCEPT ![b] = cid]

\* A socket handing over the message that arrived last instead of first.
recv_newest(q) == q[Len(q)]

\* proxy.py:103, 110, 127, 155, 160: recv_multipart() returns the message that
\* has waited longest on the socket.
recv_multipart(q) == Head(q)

\* A send that queues the message twice.
send_multipart_twice(q, msg) == Append(Append(q, msg), msg)

\* proxy.py:107, 113, 131, 157, 162: socket.send_multipart(msg) queues msg, one
\* message, behind what the socket has sent.
send_multipart(q, msg) == Append(q, msg)

\* The sockets poller.poll reports readable.
Ready(b) ==
    (IF fin[b] # <<>> THEN {"frontend"} ELSE {}) \cup (IF bin[b] # <<>> THEN {"backend"} ELSE {})

\* proxy.py:96-113: one iteration of run_router_dealer's loop in which poll
\* reported events (an iteration whose poll timed out changes nothing).
run_router_dealer(b) ==
    /\ b \in RR
    /\ pc[b] = "loop"
    /\ ctx = "live"
    /\ \E events \in SUBSET Ready(b) :
        /\ events # {}
        /\ LET takeF == "frontend" \in events
               takeB == "backend" \in events
               cid   == IF takeF THEN next_client_id(client_id[b], recv_multipart(fin[b])) ELSE client_id[b]
           IN  /\ client_id' = assign_client_id(client_id, b, cid)
               /\ router_last' = [router_last EXCEPT ![b] =
                                     IF takeF THEN Some(recv_multipart(fin[b])[1]) ELSE @]
               /\ fin' = [fin EXCEPT ![b] = IF takeF THEN Tail(@) ELSE @]
               /\ bout' = [bout EXCEPT ![b] =
                              IF takeF THEN send_multipart(@, to_backend(Tail(recv_multipart(fin[b])))) ELSE @]
               /\ bin' = [bin EXCEPT ![b] = IF takeB THEN Tail(@) ELSE @]
               /\ fout' = [fout EXCEPT ![b] =
                              IF takeB /\ Truthy(cid)
                              THEN send_multipart(@, cid \o to_frontend(recv_multipart(bin[b]))) ELSE @]
    /\ UNCHANGED <<mainpc, started, ctx, client_key, kernel_key, backend_id, pc, identity,
                   kshell, nsent, fvars, svars, dvars, wvars>>

\* proxy.py:125-131: one iteration of run_iopub's loop.
run_iopub ==
    /\ pc["iopub"] = "loop"
    /\ ctx = "live"
    /\ bin["iopub"] # <<>>
    /\ bin' = [bin EXCEPT !["iopub"] = Tail(@)]
    /\ fout' = [fout EXCEPT !["iopub"] = send_multipart(@, to_frontend(recv_multipart(bin["iopub"])))]
    /\ UNCHANGED <<mainpc, started, ctx, client_key, kernel_key, backend_id, pc, client_id,
                   identity, router_last, fin, bout, kshell, nsent, fvars, svars, dvars, wvars>>

\* proxy.py:148-162: one iteration of run_heartbeat's loop in which poll
\* reported events.
run_heartbeat ==
    /\ pc["hb"] = "loop"
    /\ ctx = "live"
    /\ \E events \in SUBSET Ready("hb") :
        /\ events # {}
        /\ LET takeF == "frontend" \in events
               takeB == "backend" \in events
               cid   == IF takeF THEN next_client_id(client_id["hb"], recv_multipart(fin["hb"]))
                                 ELSE client_id["hb"]
           IN  /\ client_id' = assign_client_id(client_id, "hb", cid)
               /\ router_last' = [router_last EXCEPT !["hb"] =
                                     IF takeF THEN Some(recv_multipart(fin["hb"])[1]) ELSE @]
               /\ fin' = [fin EXCEPT !["hb"] = IF takeF THEN Tail(@) ELSE @]
               /\ bout' = [bout EXCEPT !["hb"] =
                              IF takeF THEN send_multipart(@, hb_forward(Tail(recv_multipart(fin["hb"])))) ELSE @]
               /\ bin' = [bin EXCEPT !["hb"] = IF takeB THEN Tail(@) ELSE @]
               /\ fout' = [fout EXCEPT !["hb"] =
                              IF takeB /\ Truthy(cid)
                              THEN send_multipart(@, cid \o hb_forward(recv_multipart(bin["hb"]))) ELSE @]
    /\ UNCHANGED <<mainpc, started, ctx, client_key, kernel_key, backend_id, pc, identity,
                   kshell, nsent, fvars, svars, dvars, wvars>>

\* proxy.py:98, 150: poller.poll(1000).
PollTimeoutMs == 1000

\* How long a loop waits for a message at most: run_router_dealer and
\* run_heartbeat wait in poller.poll(1000) (proxy.py:98, 150); run_iopub waits
\* in backend.recv_multipart() (proxy.py:127), which has no timeout.
timeout(b) == IF b = "iopub" THEN None ELSE Some(PollTimeoutMs)

\* proxy.py:98, 150: the wait ends with nothing to receive; the iteration finds
\* no socket in events and the loop goes round.  The step changes nothing: it
\* is a stuttering step, which Spec admits without naming it in Next.
poll_timeout(b) ==
    /\ pc[b] = "loop"
    /\ ctx = "live"
    /\ timeout(b) # None
    /\ Ready(b) = {}
    /\ UNCHANGED vars

\* proxy.py:97-100, 126-129, 149-152: on the destroyed context the poll (the
\* recv, for run_iopub) raises ZMQError, whatever the sockets hold, and the
\* loop is left; the thread function returns and its locals are gone.
loop_exit(b) ==
    /\ pc[b] = "loop"
    /\ ctx = "destroyed"
    /\ pc' = [pc EXCEPT ![b] = on_poll_error]
    /\ client_id' = [client_id EXCEPT ![b] = IF pc'[b] = "loop" THEN @ ELSE None]
    /\ UNCHANGED <<mainpc, started, ctx, client_key, kernel_key, backend_id, identity, router_last,
                   fin, bin, bout, fout, kshell, nsent, fvars, svars, dvars, wvars>>

\* The bridges whose sockets a transport error may strike: one that waits in
\* poll and the one that waits in recv_multipart.
Faulty == {"control", "iopub"}

\* proxy.py:96-113, 125-131, 148-162: a call on a socket of the bridge of
\* channel b raises ZMQError while the context is live: raised by the poll
\* (by the receive, in run_iopub) it is caught and the loop is left, the
\* thread function returns and its locals are gone.
transport_error(b) ==
    /\ b \in Faulty
    /\ pc[b] = "loop"
    /\ ctx = "live"
    /\ nsent < MaxSends
    /\ nsent' = nsent + 1
    /\ pc' = [pc EXCEPT ![b] = on_poll_error]
    /\ client_id' = [client_id EXCEPT ![b] = IF pc'[b] = "loop" THEN @ ELSE None]
    /\ UNCHANGED <<mainpc, started, ctx, client_key, kernel_key, backend_id, identity, router_last,
                   fin, bin, bout, fout, kshell, fvars, svars, dvars, wvars>>

(***************************************************************************)
(* The environment: the frontend clients and the kernel.                   *)
(***************************************************************************)
\* Client c sends on channel b.  The ROUTER socket of a request/reply or
\* heartbeat bridge hands the message over with c's identity in front; the PUB
\* socket of the broadcast bridge keeps what it is sent (subscriptions) to
\* itself.
frontend_send(b, c) ==
    /\ pc[b] = "loop"
    /\ ctx = "live"
    /\ nsent < MaxSends
    /\ \E payload \in FrontendPayloads(b, c) :
         fin' = [fin EXCEPT ![b] = Append(@, IF b = "iopub" THEN payload ELSE <<c>> \o payload)]
    /\ nsent' = nsent + 1
    /\ UNCHANGED <<mainpc, started, ctx, client_key, kernel_key, backend_id, pc, client_id,
                   identity, router_last, bin, bout, fout, kshell, fvars, svars, dvars, wvars>>

\* The kernel takes the next message the bridge sent it on channel b.  A
\* heartbeat is echoed.  A request is answered, on the same channel, if its
\* authentication frame is valid under the kernel's secret, and dropped if not;
\* from a Shell request the kernel keeps the identity of the socket it came
\* from and its header.
kernel_recv(b) ==
    /\ b \in RR \cup {"hb"}
    /\ ctx = "live"
    /\ bout[b] # <<>>
    /\ LET m  == Head(bout[b])
           ok == HasEnvelope(m) /\ Validates(m, kernel_key)
           hd == m[DelimAt(m) + 2]
       IN  /\ bout' = [bout EXCEPT ![b] = Tail(@)]
           /\ bin' = [bin EXCEPT ![b] =
                         IF b = "hb" THEN Append(@, m)
                         ELSE IF ok THEN Append(@, Message(kernel_key, ReplyHeader, hd))
                         ELSE @]
           /\ kshell' = IF b = "shell" /\ ok THEN Some(<<identity[b][1], hd>>) ELSE kshell
    /\ UNCHANGED <<mainpc, started, ctx, client_key, kernel_key, backend_id, pc, client_id,
                   identity, router_last, fin, fout, nsent, fvars, svars, dvars, wvars>>

\* The kernel asks for input: an input request on the Stdin channel, addressed
\* with the identity it kept from the Shell request.  Its ROUTER socket
\* delivers it to the connected socket of that identity and silently drops it
\* if there is none.
kernel_input_request ==
    /\ ctx = "live"
    /\ kshell # None
    /\ nsent < MaxSends
    /\ bin' = [bin EXCEPT !["stdin"] =
                  IF pc["stdin"] = "loop" /\ identity["stdin"] = Some(kshell[1][1])
                  THEN Append(@, Message(kernel_key, InputHeader, kshell[1][2]))
                  ELSE @]
    /\ nsent' = nsent + 1
    /\ UNCHANGED <<mainpc, started, ctx, client_key, kernel_key, backend_id, pc, client_id,
                   identity, router_last, fin, bout, fout, kshell, fvars, svars, dvars, wvars>>

\* The kernel publishes on its broadcast socket.
kernel_publish ==
    /\ pc["iopub"] = "loop"
    /\ ctx = "live"
    /\ nsent < MaxSends
    /\ \E m \in KernelBroadcasts : bin' = [bin EXCEPT !["iopub"] = Append(@, m)]
    /\ nsent' = nsent + 1
    /\ UNCHANGED <<mainpc, started, ctx, client_key, kernel_key, backend_id, pc, client_id,
                   identity, router_last, fin, bout, fout, kshell, fvars, svars, dvars, wvars>>

Next ==
    \/ main_load
    \/ main_load_fails
    \/ main_start_thread
    \/ main_start_fails
    \/ main_install_handlers
    \/ \E s \in Signals : signal_default(s)
    \/ \E s \in Signals : _shutdown(s)
    \/ main_exit
    \/ \E b \in Channels : setup(b)
    \/ \E b \in RR : run_router_dealer(b)
    \/ run_iopub
    \/ run_heartbeat
    \/ \E b \in Channels : loop_exit(b)
    \/ \E b \in Faulty : transport_error(b)
    \/ \E b \in Channels, c \in Clients : frontend_send(b, c)
    \/ \E b \in RR \cup {"hb"} : kernel_recv(b)
    \/ kernel_input_request
    \/ kernel_publish

Spec == Init /\ [][Next]_vars

(***************************************************************************)
(* Claims about the running proxy (checked under Spec).                    *)
(***************************************************************************)
Last(q) == q[Len(q)]

\* The bridge of channel b sent a message towards the kernel / the frontend
\* in this step (only the bridge appends to bout and fout).
SentToKernel(b) == ctx' = "live" /\ Len(bout'[b]) > Len(bout[b])
SentToFrontend(b) == ctx' = "live" /\ Len(fout'[b]) > Len(fout[b])

\* The envelope frames of msg, a message that holds the delimiter: the frames
\* after its authentication frame, four at most.
Envelope(msg) == SliceTo(SliceFrom(msg, DelimAt(msg) + 1), 4)

\* out is msg re-signed with secret k: without a delimiter, msg itself; with
\* one, msg with the frame after the delimiter replaced by (or, if there was
\* none, extended by) the authentication code of its envelope under k.
IsResigned(msg, out, k) ==
    IF \A i \in 1..Len(msg) : msg[i] # DELIM
    THEN out = msg
    ELSE LET i == DelimAt(msg)
         IN  /\ Len(out) = (IF Len(msg) > i THEN Len(msg) ELSE i + 1)
             /\ \A j \in 1..Len(msg) : j # i + 1 => out[j] = msg[j]
             /\ out[i + 1] = make_signer(k, Envelope(msg))

\* msg (without routing identity) is the kernel's reply to a request of client c.
IsReplyTo(msg, c) ==
    HasEnvelope(msg) /\ msg[DelimAt(msg) + 2] = ReplyHeader /\ msg[DelimAt(msg) + 3] = ReqHeader(c)

C4_ResignedForDestination ==
    [][\A b \in RR :
          /\ SentToKernel(b) =>
                /\ bout'[b] = Append(bout[b], Last(bout'[b]))
                /\ IsResigned(Tail(Head(fin[b])), Last(bout'[b]), kernel_key)
                /\ ~Validates(Last(bout'[b]), client_key)
          /\ SentToFrontend(b) =>
                /\ fout'[b] = Append(fout[b], Last(fout'[b]))
                /\ IsResigned(Head(bin[b]), Tail(Last(fout'[b])), client_key)
                /\ ~Validates(Tail(Last(fout'[b])), kernel_key)]_vars

\* A request went to the kernel valid under the kernel's secret, and its reply
\* went to the frontend valid under the frontend's; both secrets are set.
C4_Witness ==
    /\ kernel_key # <<>>
    /\ kshell # None
    /\ fout["shell"] # <<>>
    /\ Validates(Tail(fout["shell"][1]), client_key)
    /\ IsReplyTo(Tail(fout["shell"][1]), <<11>>)

\* C6: the kernel-facing sockets of the Shell, Control and Stdin bridges all
\* carry the one identity main drew at startup, and neither that identity nor
\* a socket's ever changes.
C6_SharedBackendIdentity ==
    /\ [](\A b \in RR : identity[b] # None => identity[b] = backend_id)
    /\ [](\A b \in Channels : pc[b] = "loop" /\ b \in RR => identity[b] # None)
    /\ [][/\ backend_id # None => backend_id' = backend_id
          /\ \A b \in RR : identity[b] # None => identity'[b] = identity[b]]_vars

\* All three request/reply bridges run, their sockets on the identity drawn.
C6_Witness ==
    /\ \A b \in RR : pc[b] = "loop" /\ identity[b] = Some(<<201>>)
    /\ backend_id = Some(<<201>>)

\* msg is an input request of the kernel, made while serving a request of c.
IsInputRequest(msg, c) ==
    HasEnvelope(msg) /\ msg[DelimAt(msg) + 2] = InputHeader /\ msg[DelimAt(msg) + 3] = ReqHeader(c)

\* C7: an input request the kernel issues on the Stdin channel, addressed with
\* the identity it captured from a Shell request of the frontend client, is
\* routed by the Stdin bridge to that client: when the bridge takes it from
\* its kernel-facing socket it sends it on, addressed to the client.
C7_InputRequestRouted ==
    [][\A c \in Clients :
          (/\ ctx' = "live"
           /\ bin["stdin"] # <<>>
           /\ IsInputRequest(Head(bin["stdin"]), c)
           /\ bin'["stdin"] = Tail(bin["stdin"]))
          => /\ SentToFrontend("stdin")
             /\ Last(fout'["stdin"])[1] = c]_vars

\* C8: on the Heartbeat channel the frames sent to the kernel are the frames
\* received from the frontend less the routing identity, and the frames sent
\* to the frontend are the frames received from the kernel behind a routing
\* identity; nothing is re-signed, inserted, removed or altered.
C8_HeartbeatVerbatim ==
    [][/\ SentToKernel("hb") =>
             bout'["hb"] = Append(bout["hb"], Tail(Head(fin["hb"])))
       /\ SentToFrontend("hb") =>
             \E c \in Clients : fout'["hb"] = Append(fout["hb"], <<c>> \o Head(bin["hb"]))]_vars

\* A heartbeat payload holding the delimiter came back to its sender as sent.
C8_Witness ==
    /\ fout["hb"] # <<>>
    /\ fout["hb"][1] = <<<<11>>, <<>>, DELIM, <<112>>, <<113>>>>

\* C9: the broadcast bridge publishes only what it received from the kernel,
\* re-signed with the frontend's secret and otherwise as received, and sends
\* nothing to the kernel: what arrives at its frontend-facing socket stays
\* there.
C9_BroadcastOneWay ==
    /\ [](bout["iopub"] = <<>>)
    /\ [][/\ SentToFrontend("iopub") =>
                /\ fout'["iopub"] = Append(fout["iopub"], Last(fout'["iopub"]))
                /\ bin'["iopub"] = Tail(bin["iopub"])
                /\ IsResigned(Head(bin["iopub"]), Last(fout'["iopub"]), client_key)
          /\ ctx' = "live" => Len(fin'["iopub"]) >= Len(fin["iopub"])]_vars

\* A status message with topic and attachment was published, valid under the
\* frontend's secret, while a subscription waits unread at the frontend side.
C9_Witness ==
    /\ fin["iopub"] # <<>>
    /\ fout["iopub"] # <<>>
    /\ fout["iopub"][1][1] = StatusHeader
    /\ Last(fout["iopub"][1]) = <<7>>
    /\ Validates(fout["iopub"][1], client_key)
    /\ ~Validates(fout["iopub"][1], kernel_key)

Ended == {"exited", "died", "killed"}

\* The step by which the thread of channel b ends.
ExitStep(b) == (loop_exit(b) \/ setup(b)) /\ pc'[b] \in Ended

\* A step by which a bridge receives or forwards.
ForwardStep == (\E b \in RR : run_router_dealer(b)) \/ run_iopub \/ run_heartbeat

\* C10: once the termination signal has run the shutdown path, every bridge
\* loop that has not ended can end at once, with nothing more from the frontend
\* or the kernel, and can do nothing but end.
C10_ShutdownImmediacy ==
    ctx = "destroyed" =>
        /\ \A b \in Channels : pc[b] \in Ended \/ ENABLED ExitStep(b)
        /\ ~ENABLED ForwardStep

\* All five loops have exited after the signal, before the process is gone.
C10_Witness ==
    /\ ctx = "destroyed"
    /\ mainpc = "stopping"
    /\ \A b \in Channels : pc[b] = "exited"

\* C11: a request/reply bridge keeps one current-client slot, which every
\* frontend message it receives overwrites with that message's routing
\* identity, whatever it held; and whatever the bridge sends to the frontend
\* is addressed to the identity of the frontend message it received last, so
\* that with several clients a reply goes to the most recent sender.
C11_LastWriterWins ==
    [][\A b \in RR :
          /\ (ctx' = "live" /\ Len(fin'[b]) < Len(fin[b])) =>
                /\ client_id'[b] = Some(Head(fin[b])[1])
                /\ router_last'[b] = client_id'[b]
          /\ SentToFrontend(b) =>
                /\ router_last'[b] # None
                /\ client_id'[b] = router_last'[b]
                /\ Last(fout'[b])[1] = router_last'[b][1]]_vars

\* The kernel's reply to the request of client <<11>> went out on the Shell
\* bridge addressed to client <<12>>, whose request the bridge had received in
\* between.
C11_Witness ==
    /\ fout["shell"] # <<>>
    /\ IsReplyTo(Tail(fout["shell"][1]), <<11>>)
    /\ fout["shell"][1][1] = <<12>>
    /\ client_id["shell"] = Some(<<12>>)

\* C12: when startup fails -- a descriptor or the state cannot be read or
\* parsed, or lacks a field an endpoint is formed from -- the process exits
\* with a non-zero status and, at that moment, no bridge thread has been
\* started.
C12_NoPartialStartup ==
    [][(main_load_fails \/ main_start_fails) =>
          /\ exitcode' # None
          /\ exitcode' # Some(0)
          /\ \A b \in Channels : pc[b] = "unstarted"]_vars

\* C13: a termination signal, SIGTERM or SIGINT, that arrives while all five
\* bridges are running takes the shutdown path: the context is destroyed (and
\* what waits on its sockets discarded), and the process, when it has ended,
\* has ended with status 0.
C13_SignalsShutDownCleanly ==
    /\ [][\A s \in Signals :
             ((signal_default(s) \/ _shutdown(s)) /\ \A b \in Channels : pc[b] = "loop") =>
                 /\ ctx' = "destroyed"
                 /\ exitcode' \in {None, Some(0)}]_vars
    /\ []((ctx = "destroyed" /\ mainpc = "exited") => exitcode = Some(0))

\* The failure ended every bridge thread and nothing else is wrong: the
\* context is live and main has not been signalled.
AllBridgesFailed == ctx = "live" /\ \A b \in Channels : pc[b] = "died"

\* C14: once all five bridges have stopped because of transport errors, the
\* process exits: main, waiting, can take its exit step without a signal.
C14_ExitWhenAllBridgesStopped ==
    (AllBridgesFailed /\ mainpc = "wait") => ENABLED main_exit

\* out is what the bridge of channel b makes of the message msg it received
\* (msg without routing identity): on the heartbeat channel msg itself, on the
\* others msg re-signed with the secret k of the side it goes to.
IsForwardOf(b, msg, out, k) ==
    IF b = "hb" THEN out = msg ELSE IsResigned(msg, out, k)

\* C27: on every channel and in each direction, the bridge forwards messages
\* in the order it received them: whenever it sends, the message sent is made
\* of the one that has waited longest on the receiving socket, that message
\* (and no other) leaves the receiving socket, and the message sent is queued
\* behind all those sent before it -- whatever the other direction and the
\* other channels do in between.
C27_OrderPreserved ==
    [][\A b \in Channels :
          /\ SentToKernel(b) =>
                /\ fin[b] # <<>>
                /\ fin'[b] = Tail(fin[b])
                /\ bout'[b] = Append(bout[b], Last(bout'[b]))
                /\ IsForwardOf(b, Tail(Head(fin[b])), Last(bout'[b]), kernel_key)
          /\ SentToFrontend(b) =>
                /\ bin[b] # <<>>
                /\ bin'[b] = Tail(bin[b])
                /\ fout'[b] = Append(fout[b], Last(fout'[b]))
                /\ IsForwardOf(b, Head(bin[b]),
                               IF b = "iopub" THEN Last(fout'[b]) ELSE Tail(Last(fout'[b])),
                               client_key)]_vars

\* The kernel published a status message and then frames that are no Jupyter
\* message; both reached the frontend side, in that order.
C27_Witness ==
    /\ Len(fout["iopub"]) = 2
    /\ HasEnvelope(fout["iopub"][1])
    /\ fout["iopub"][2] = <<<<112>>>>

\* C29: a request/reply or heartbeat bridge sends a kernel-side message to the
\* frontend only if its own frontend-facing socket has handed it a message
\* before (what the other bridges received does not count); a kernel-side
\* message it takes while its client slot is empty is dropped in that step,
\* and since every message sent to the frontend is made of the one taken from
\* the kernel-facing socket in the same step, it is never delivered later.
C29_NoClientNoDelivery ==
    [][\A b \in RR \cup {"hb"} :
          /\ SentToFrontend(b) =>
                /\ router_last'[b] # None
                /\ client_id'[b] = router_last'[b]
                /\ bin[b] # <<>> /\ bin'[b] = Tail(bin[b])
                /\ IsForwardOf(b, Head(bin[b]), Tail(Last(fout'[b])), client_key)
          /\ (/\ ctx' = "live"
              /\ bin[b] # <<>> /\ bin'[b] = Tail(bin[b])
              /\ client_id'[b] = None)
             => fout'[b] = fout[b]]_vars

\* A Shell request was answered and the kernel asked for input; nothing waits
\* on any socket, the Stdin bridge runs on the identity the kernel addressed,
\* its client slot is empty although the Shell bridge has a client, and
\* nothing was sent to the frontend on Stdin.
C29_Witness ==
    /\ ctx = "live"
    /\ nsent = 2
    /\ kshell # None
    /\ pc["stdin"] = "loop" /\ identity["stdin"] = Some(kshell[1][1])
    /\ client_id["stdin"] = None /\ client_id["shell"] # None
    /\ \A b \in Channels : fin[b] = <<>> /\ bin[b] = <<>> /\ bout[b] = <<>>
    /\ Len(fout["shell"]) = 1
    /\ \A b \in Channels \ {"shell"} : fout[b] = <<>>

\* A step of the thread of channel b: setting up its sockets, one iteration of
\* its loop, or leaving the loop.
BridgeStep(b) ==
    \/ setup(b)
    \/ b \in RR /\ run_router_dealer(b)
    \/ b = "iopub" /\ run_iopub
    \/ b = "hb" /\ run_heartbeat
    \/ loop_exit(b)

\* C28: bridges share no mutable state.  A step of one bridge leaves the
\* client slot, the position, the socket identity and the sockets' queues of
\* every other bridge as they were, and once main has loaded them the two
\* secrets and the kernel-facing identity are never written again.
C28_NoSharedMutableState ==
    [][/\ \A b \in Channels : BridgeStep(b) =>
             \A o \in Channels \ {b} :
                 /\ client_id'[o] = client_id[o]
                 /\ router_last'[o] = router_last[o]
                 /\ pc'[o] = pc[o]
                 /\ identity'[o] = identity[o]
                 /\ fin'[o] = fin[o] /\ bin'[o] = bin[o]
                 /\ bout'[o] = bout[o] /\ fout'[o] = fout[o]
       /\ mainpc # "load" =>
             /\ client_key' = client_key
             /\ kernel_key' = kernel_key
             /\ backend_id' = backend_id]_vars

\* Two bridges hold different clients, under secrets that are set.
C28_Witness ==
    /\ client_id["shell"] = Some(<<11>>)
    /\ client_id["control"] = Some(<<12>>)
    /\ client_id["stdin"] = None
    /\ client_key # <<>> /\ kernel_key # <<>>
    /\ backend_id # None

\* C26: each of the five forwarding loops waits for input only through a wait
\* bounded by a timeout: while a loop runs its wait has a bound, and with
\* nothing to receive the wait can end and the loop come round.
C26_BoundedWait ==
    \A b \in Channels :
        pc[b] = "loop" =>
            /\ timeout(b) # None
            /\ (ctx = "live" /\ Ready(b) = {}) => ENABLED poll_timeout(b)

Forward(b) ==
    \/ b \in RR /\ run_router_dealer(b)
    \/ b = "iopub" /\ run_iopub
    \/ b = "hb" /\ run_heartbeat

\* The bridge of channel b has a message to take.
HasInput(b) == IF b = "iopub" THEN bin[b] # <<>> ELSE Ready(b) # {}

\* C24: a transport error on a socket of one bridge ends that bridge's loop and
\* nothing else: the step leaves every other bridge, main and the context as
\* they were, so that each of the others stays in its loop with what it has
\* to take and what it has sent; a loop that has ended is never entered
\* again; and a bridge that forwards does so whichever bridges have ended:
\* its step reads and writes its own position, slot and queues only.
C24_ErrorEndsOnlyThatBridge ==
    [][/\ \A b \in Channels : transport_error(b) =>
             /\ pc'[b] \in Ended
             /\ mainpc' = mainpc /\ ctx' = ctx /\ exitcode' = exitcode
             /\ \A o \in Channels \ {b} :
                   /\ pc'[o] = pc[o] /\ client_id'[o] = client_id[o]
                   /\ fin'[o] = fin[o] /\ bin'[o] = bin[o]
                   /\ bout'[o] = bout[o] /\ fout'[o] = fout[o]
       /\ \A b \in Channels : pc[b] \in Ended => pc'[b] = pc[b]
       /\ \A b \in Channels : Forward(b) =>
             /\ pc[b] = "loop" /\ pc'[b] = "loop" /\ HasInput(b)
             /\ \A o \in Channels \ {b} : pc'[o] = pc[o]]_vars

\* The Control bridge has ended on a transport error (its endpoint was free
\* and the context is live, so nothing else can have ended it) while main
\* waits; the other four bridges are in their loops and the Shell bridge has
\* a request to forward, which it can.
C24_Witness ==
    /\ in_use = {}
    /\ ctx = "live"
    /\ mainpc = "wait"
    /\ pc["control"] = "exited"
    /\ \A b \in Channels \ {"control"} : pc[b] = "loop"
    /\ fin["shell"] # <<>>
    /\ ENABLED Forward("shell")

\* C32: a bridge sends nothing it did not receive, nothing twice and nothing
\* across channels.  Whenever the bridge of channel b sends towards the kernel,
\* it sends one message, made of the one message that leaves its own
\* frontend-facing socket in that step; whenever it sends towards the
\* frontend, it sends one message, made of the one message that leaves its own
\* kernel-facing socket in that step (the broadcast bridge sends towards the
\* frontend only).  A message taken from a socket is gone from it, so it is
\* never sent again, and a step in which b sends takes nothing from and adds
\* nothing to the sockets of any other channel.
C32_NoFabricationDuplicationCrossRouting ==
    [][\A b \in Channels :
          /\ SentToKernel(b) =>
                /\ b # "iopub"
                /\ Len(bout'[b]) = Len(bout[b]) + 1
                /\ fin[b] # <<>> /\ Len(fin'[b]) = Len(fin[b]) - 1
                /\ IsForwardOf(b, Tail(Head(fin[b])), Last(bout'[b]), kernel_key)
          /\ SentToFrontend(b) =>
                /\ Len(fout'[b]) = Len(fout[b]) + 1
                /\ bin[b] # <<>> /\ Len(bin'[b]) = Len(bin[b]) - 1
                /\ IsForwardOf(b, Head(bin[b]),
                               IF b = "iopub" THEN Last(fout'[b]) ELSE Tail(Last(fout'[b])),
                               client_key)
          /\ (SentToKernel(b) \/ SentToFrontend(b)) =>
                \A o \in Channels \ {b} :
                    /\ fin'[o] = fin[o] /\ bin'[o] = bin[o]
                    /\ bout'[o] = bout[o] /\ fout'[o] = fout[o]]_vars

\* Client <<11>>'s Shell request came back as one reply on the Shell bridge's
\* frontend side while client <<12>>'s Control request waits, once, on the
\* Control bridge's kernel side; nothing else was sent anywhere.
C32_Witness ==
    /\ ctx = "live"
    /\ Len(fout["shell"]) = 1
    /\ fout["shell"][1][1] = <<11>>
    /\ IsReplyTo(Tail(fout["shell"][1]), <<11>>)
    /\ Len(bout["control"]) = 1
    /\ bout["control"][1][DelimAt(bout["control"][1]) + 2] = ReqHeader(<<12>>)
    /\ bout["shell"] = <<>>
    /\ fout["control"] = <<>>
    /\ \A b \in {"stdin", "iopub", "hb"} : bout[b] = <<>> /\ fout[b] = <<>>
    /\ \A b \in Channels : fin[b] = <<>> /\ bin[b] = <<>>

=============================================================================
